---- MODULE Spec2Model ----
(***************************************************************************)
(* A model of the Go heap-dump reader (package read), of its linker and of *)
(* the analyses hview builds on it (referrer index, dominators).           *)
(*                                                                         *)
(* Conventions.  Go slices indexed from 0 are TLA+ sequences indexed from  *)
(* 1, so Go's s[i] is s[i+1] here; ObjIds, offsets and addresses keep      *)
(* their Go values.  A Go pointer to an element of a Dump collection is    *)
(* the element's index in that collection, 0 standing for nil.  An         *)
(* operator that models code which may stop the process returns a record   *)
(* whose field st is "ok", "fatal" (log.Fatal), "panic" (a Go run-time     *)
(* panic) or "hang" (a loop that does not end).  All numbers of the model  *)
(* stay far below 2^31, so uint64 arithmetic never wraps where the text    *)
(* does not say so.                                                        *)
(***************************************************************************)
EXTENDS Integers, Sequences, FiniteSets, TLC

VARIABLES
    file,       \* the bytes of the dump file (what d.r reads)
    client,     \* the program using package read: "hview" or "reader"
    d,          \* the Dump
    mem,        \* the backing arrays of the scratch slices d.buf and d.edges
    pc,         \* where the main program is
    ret,        \* the slice header the last query returned
    retObj,     \* the ObjId the last query was about
    retKind,    \* "Contents" or "Edges": the last query
    held,       \* the slice header the query before the last returned
    heldObj,    \* the ObjId that query was about
    heldKind,   \* which query that was
    heldVal,    \* what that slice held when it was returned
    first,      \* first[x + 1]: the first Edges(x): when (0: never), its result
    nq,         \* number of queries made so far
    byType,     \* hview's histogram by full type id
    ref1, ref2, \* hview's referrer index
    domsize,    \* hview's dominated sizes
    roots,      \* dom: the set of roots
    todo,       \* dom: the roots  for x := range roots  has yet to visit
    postorder, postnum, state, q,   \* dom: the postorder pass
    idom, change, di,               \* dom: the fixed point; di is its index i
    th,         \* the handlers that run concurrently: their local variables
    d0          \* the Dump as the first run of the linker left it

(***************************************************************************)
(* Constants of package read.                                              *)
(***************************************************************************)
FieldKindEol == 0
FieldKindPtr == 1
FieldKindString == 2
FieldKindSlice == 3
FieldKindIface == 4
FieldKindEface == 5
FieldKindUInt32 == 11
FieldKindUInt64 == 13
FieldKindBytes8 == 19
FieldKindBytes16 == 20

TypeKindObject == 0
TypeKindArray == 1
TypeKindChan == 2
TypeKindConservative == 127

tagEOF == 0
tagObject == 1
tagOtherRoot == 2
tagType == 3
tagGoRoutine == 4
tagStackFrame == 5
tagParams == 6
tagFinalizer == 7
tagItab == 8
tagOSThread == 9
tagMemStats == 10
tagQFinal == 11
tagData == 12
tagBss == 13
tagDefer == 14
tagPanic == 15

bucketSize == 256
ObjNil == -1

\* binary.LittleEndian and binary.BigEndian; a Dump that saw no Params record
\* has the nil ByteOrder.
LittleEndian == "LittleEndian"
BigEndian == "BigEndian"
NilOrder == "nil"

(***************************************************************************)
(* Small helpers.                                                          *)
(***************************************************************************)
Min(a, b) == IF a < b THEN a ELSE b
Max(a, b) == IF a < b THEN b ELSE a

\* s[from:] of Go, for 0 <= from <= len(s)
SliceFrom(s, from) == SubSeq(s, from + 1, Len(s))

\* x << k on a value that stays small: a zero byte contributes nothing,
\* whatever the shift
Shl(x, k) == IF x = 0 THEN 0 ELSE x * (2 ^ k)

\* string(b) for the bytes that occur in the model's dumps: the upper-case
\* letters; any other byte shows as "?"
Letters == <<"A", "B", "C", "D", "E", "F", "G", "H", "I", "J", "K", "L", "M",
             "N", "O", "P", "Q", "R", "S", "T", "U", "V", "W", "X", "Y", "Z">>
Chr(b) == IF b \in 65..90 THEN Letters[b - 64] ELSE "?"
RECURSIVE BytesToString(_)
BytesToString(bs) ==
    IF bs = <<>> THEN "" ELSE Chr(Head(bs)) \o BytesToString(Tail(bs))

(***************************************************************************)
(* myReader: a reader over the file that counts what it has read.  pos is  *)
(* the position of the underlying bufio.Reader in the file, cnt is the     *)
(* reader's own count.                                                     *)
(***************************************************************************)
NewReader == [pos |-> 0, cnt |-> 0]

\* myReader.ReadByte
ReadByte(fl, r) ==
    IF r.pos >= Len(fl)
    THEN [ok |-> FALSE, c |-> 0, r |-> r]
    ELSE [ok |-> TRUE, c |-> fl[r.pos + 1],
          r |-> [pos |-> r.pos + 1, cnt |-> r.cnt + 1]]

\* myReader.ReadLine over bufio.Reader.ReadLine: the line up to the next
\* '\n', without the "\n" or "\r\n" that ends it; at the end of the file
\* the rest of it.  The lines of the model are shorter than bufio's buffer,
\* so isPrefix is false.
NewlinePos(fl, from) ==
    LET nl == {i \in (from + 1)..Len(fl) : fl[i] = 10}
    IN IF nl = {} THEN 0 ELSE CHOOSE i \in nl : \A j \in nl : i <= j

ReadLine(fl, r) ==
    LET strip(raw) == IF raw # <<>> /\ raw[Len(raw)] = 13
                      THEN SubSeq(raw, 1, Len(raw) - 1) ELSE raw
        atEnd(rest) ==
            [ok |-> rest # <<>>, line |-> rest, isPrefix |-> FALSE,
             r |-> [pos |-> Len(fl), cnt |-> r.cnt + Len(rest) + 1]]
        upTo(p, line) ==
            [ok |-> TRUE, line |-> line, isPrefix |-> FALSE,
             r |-> [pos |-> p, cnt |-> r.cnt + Len(line) + 1]]
        at(p) == IF p = 0 THEN atEnd(SliceFrom(fl, r.pos))
                 ELSE upTo(p, strip(SubSeq(fl, r.pos + 1, p - 1)))
    IN at(NewlinePos(fl, r.pos))

\* myReader.Skip: io.CopyN discards up to n bytes; rawRead drops its error
Skip(fl, r, n) ==
    LET k == Min(n, Len(fl) - r.pos)
    IN [pos |-> r.pos + k, cnt |-> r.cnt + k]

\* readUint64: binary.ReadUvarint, fatal on an error
RECURSIVE ReadUvarint(_, _, _, _, _)
ReadUvarint(fl, r, x, s, i) ==
    IF i >= 10 THEN [st |-> "fatal", v |-> 0, r |-> r]
    ELSE LET with(b) ==
                 IF ~b.ok THEN [st |-> "fatal", v |-> 0, r |-> r]
                 ELSE IF b.c < 128
                      THEN IF i = 9 /\ b.c > 1
                           THEN [st |-> "fatal", v |-> 0, r |-> b.r]
                           ELSE [st |-> "ok", v |-> x + Shl(b.c, s), r |-> b.r]
                      ELSE ReadUvarint(fl, b.r, x + Shl(b.c % 128, s), s + 7,
                                       i + 1)
         IN with(ReadByte(fl, r))

readUint64(fl, r) == ReadUvarint(fl, r, 0, 0, 0)

\* readNBytes: io.ReadFull of n bytes, fatal when the file ends first (the
\* bytes read before the error are counted)
readNBytes(fl, r, n) ==
    IF r.pos + n > Len(fl)
    THEN [st |-> "fatal", v |-> <<>>,
          r |-> [pos |-> Len(fl), cnt |-> r.cnt + (Len(fl) - r.pos)]]
    ELSE [st |-> "ok", v |-> SubSeq(fl, r.pos + 1, r.pos + n),
          r |-> [pos |-> r.pos + n, cnt |-> r.cnt + n]]

readBytes(fl, r) ==
    LET with(n) == IF n.st # "ok" THEN [st |-> n.st, v |-> <<>>, r |-> n.r]
                   ELSE readNBytes(fl, n.r, n.v)
    IN with(readUint64(fl, r))

readString(fl, r) ==
    LET with(b) == [st |-> b.st, v |-> BytesToString(b.v), r |-> b.r]
    IN with(readBytes(fl, r))

readBool(fl, r) ==
    LET with(b) == IF ~b.ok THEN [st |-> "fatal", v |-> FALSE, r |-> r]
                   ELSE [st |-> "ok", v |-> b.c # 0, r |-> b.r]
    IN with(ReadByte(fl, r))

\* readFields: (kind, offset) pairs up to kind 0, in the order of the file
RECURSIVE readFieldsFrom(_, _, _)
readFieldsFrom(fl, r, x) ==
    LET field(kind, off) ==
            IF off.st # "ok" THEN [st |-> off.st, v |-> x, r |-> off.r]
            ELSE readFieldsFrom(fl, off.r,
                     Append(x, [Kind |-> kind.v, Offset |-> off.v, Name |-> ""]))
        with(kind) ==
            IF kind.st # "ok" THEN [st |-> kind.st, v |-> x, r |-> kind.r]
            ELSE IF kind.v = FieldKindEol
                 THEN [st |-> "ok", v |-> x, r |-> kind.r]
                 ELSE field(kind, readUint64(fl, kind.r))
    IN with(readUint64(fl, r))

readFields(fl, r) == readFieldsFrom(fl, r, <<>>)

\* n values read by readUint64 one after the other
RECURSIVE readUints(_, _, _, _)
readUints(fl, r, n, acc) ==
    IF n = 0 THEN [st |-> "ok", v |-> acc, r |-> r]
    ELSE LET with(x) ==
                 IF x.st # "ok" THEN [st |-> x.st, v |-> acc, r |-> x.r]
                 ELSE readUints(fl, x.r, n - 1, Append(acc, x.v))
         IN with(readUint64(fl, r))

\* a run of reads as rawRead makes them for one record: fmt names, in order,
\* what is read: "u" readUint64, "b" readBool, "s" readString, "y" readBytes,
\* "f" readFields.  v holds the values read, in that order.
readItem(fl, r, what) ==
    CASE what = "u" -> readUint64(fl, r)
      [] what = "b" -> readBool(fl, r)
      [] what = "s" -> readString(fl, r)
      [] what = "y" -> readBytes(fl, r)
      [] what = "f" -> readFields(fl, r)

RECURSIVE readItems(_, _, _, _)
readItems(fl, r, fmt, acc) ==
    IF fmt = <<>> THEN [st |-> "ok", v |-> acc, r |-> r]
    ELSE LET with(x) ==
                 IF x.st # "ok" THEN [st |-> x.st, v |-> acc, r |-> x.r]
                 ELSE readItems(fl, x.r, Tail(fmt), Append(acc, x.v))
         IN with(readItem(fl, r, Head(fmt)))

(***************************************************************************)
(* The Dump.                                                               *)
(***************************************************************************)
\* a slice over one of the arrays of mem, starting at the array's first
\* element: arr = 0 is the nil slice
NilSlice == [arr |-> 0, len |-> 0]
Cap(mm, s) == IF s.arr = 0 THEN 0 ELSE Len(mm[s.arr])
View(mm, s) == IF s.len = 0 THEN <<>> ELSE SubSeq(mm[s.arr], 1, s.len)

\* var d Dump, with the maps made, as rawRead starts with
NewDump ==
    [Order |-> NilOrder, PtrSize |-> 0, HChanSize |-> 0,
     HeapStart |-> 0, HeapEnd |-> 0, TheChar |-> 0, Experiment |-> "",
     Ncpu |-> 0,
     Types |-> <<>>, Objects |-> <<>>, Frames |-> <<>>, Goroutines |-> <<>>,
     Otherroots |-> <<>>, Finalizers |-> <<>>, QFinal |-> <<>>,
     Osthreads |-> <<>>, Memstats |-> <<>>, Data |-> <<>>, Bss |-> <<>>,
     Defers |-> <<>>, Panics |-> <<>>,
     buf |-> NilSlice, edges |-> NilSlice,
     FTList |-> <<>>, TypeMap |-> <<>>, ItabMap |-> <<>>, idx |-> <<>>]

NumObjects(dd) == Len(dd.Objects)
Addr(dd, x) == dd.Objects[x + 1].Addr
Ft(dd, x) == dd.FTList[dd.Objects[x + 1].Ft + 1]
Size(dd, x) == Ft(dd, x).Size

\* the decimal text of (a - b) / c in uint64 arithmetic, for a name: a < b
\* wraps around, which the model writes without computing 2^64
QuotientText(a, b, c) ==
    IF a >= b THEN ToString((a - b) \div c)
    ELSE "(2^64-" \o ToString(b - a) \o ")/" \o ToString(c)

\* a makeFullType that takes a channel whatever d.HChanSize is
makeFullTypeAnyChan(dd, typaddr, kind, size) ==
    LET known == typaddr \in DOMAIN dd.TypeMap
        t == IF known THEN dd.TypeMap[typaddr] ELSE 0
        T == dd.Types[t]
        st == IF typaddr # 0 /\ ~known THEN "fatal"
              ELSE IF kind = TypeKindArray /\ (t = 0 \/ T.Size = 0) THEN "panic"
              ELSE IF kind = TypeKindChan /\ t = 0 THEN "panic"
              ELSE "ok"
        name == CASE kind = TypeKindObject ->
                       IF t # 0 THEN T.Name ELSE "noptr" \o ToString(size)
                  [] kind = TypeKindArray ->
                       "{" \o QuotientText(size, 0, T.Size) \o "}" \o T.Name
                  [] kind = TypeKindChan ->
                       IF T.Size > 0
                       THEN "chan{" \o QuotientText(size, dd.HChanSize, T.Size)
                            \o "}" \o T.Name
                       ELSE "chan{inf}" \o T.Name
                  [] kind = TypeKindConservative ->
                       "conservative" \o ToString(size)
                  [] OTHER -> ""
        ft == [Id |-> Len(dd.FTList), Typ |-> t, Kind |-> kind, Size |-> size,
               Name |-> name, Fields |-> <<>>]
    IN IF st # "ok" THEN [st |-> st, d |-> dd, id |-> 0]
       ELSE [st |-> "ok", d |-> [dd EXCEPT !.FTList = Append(@, ft)],
             id |-> ft.Id]

\* Dump.makeFullType: the FullType of a new (typaddr, kind, size)
makeFullType(dd, typaddr, kind, size) ==
    LET known == typaddr \in DOMAIN dd.TypeMap
        t == IF known THEN dd.TypeMap[typaddr] ELSE 0
        T == dd.Types[t]
        st == IF typaddr # 0 /\ ~known THEN "fatal"
              ELSE IF kind = TypeKindArray /\ (t = 0 \/ T.Size = 0) THEN "panic"
              ELSE IF kind = TypeKindChan /\ dd.HChanSize = 0 THEN "fatal"
              ELSE IF kind = TypeKindChan /\ t = 0 THEN "panic"
              ELSE "ok"
        name == CASE kind = TypeKindObject ->
                       IF t # 0 THEN T.Name ELSE "noptr" \o ToString(size)
                  [] kind = TypeKindArray ->
                       "{" \o QuotientText(size, 0, T.Size) \o "}" \o T.Name
                  [] kind = TypeKindChan ->
                       IF T.Size > 0
                       THEN "chan{" \o QuotientText(size, dd.HChanSize, T.Size)
                            \o "}" \o T.Name
                       ELSE "chan{inf}" \o T.Name
                  [] kind = TypeKindConservative ->
                       "conservative" \o ToString(size)
                  [] OTHER -> ""
        ft == [Id |-> Len(dd.FTList), Typ |-> t, Kind |-> kind, Size |-> size,
               Name |-> name, Fields |-> <<>>]
    IN IF st # "ok" THEN [st |-> st, d |-> dd, id |-> 0]
       ELSE [st |-> "ok", d |-> [dd EXCEPT !.FTList = Append(@, ft)],
             id |-> ft.Id]

(***************************************************************************)
(* rawRead.  s = [d, r, ftmap] is the state of its loop.                   *)
(***************************************************************************)
HeaderLine == <<103, 111, 49, 46, 51, 32, 104, 101, 97, 112, 32, 100, 117, 109, 112>>

\* what one record of each tag reads after the tag
RecordFormat(kind) ==
    CASE kind = tagObject -> <<"u", "u", "u", "u">>
      [] kind = tagOtherRoot -> <<"s", "u">>
      [] kind = tagType -> <<"u", "u", "s", "b", "f">>
      [] kind = tagGoRoutine ->
            <<"u", "u", "u", "u", "u", "b", "b", "u", "s", "u", "u", "u", "u">>
      [] kind = tagStackFrame -> <<"u", "u", "u", "y", "u", "u", "s", "f">>
      [] kind = tagParams -> <<"u", "u", "u", "u", "u", "u", "s", "u">>
      [] kind = tagFinalizer -> <<"u", "u", "u", "u", "u">>
      [] kind = tagQFinal -> <<"u", "u", "u", "u", "u">>
      [] kind = tagData -> <<"u", "y", "f">>
      [] kind = tagBss -> <<"u", "y", "f">>
      [] kind = tagItab -> <<"u", "b">>
      [] kind = tagOSThread -> <<"u", "u", "u">>
      [] kind = tagMemStats -> [i \in 1..(24 + 256 + 1) |-> "u"]
      [] kind = tagDefer -> <<"u", "u", "u", "u", "u", "u", "u">>
      [] kind = tagPanic -> <<"u", "u", "u", "u", "u", "u">>

\* a decoder that makes a full type for every object record
rawObjectNoDedup(fl, s, v) ==
    LET with(mk) ==
            IF mk.st # "ok"
            THEN [st |-> mk.st, d |-> s.d, r |-> s.r, ftmap |-> s.ftmap]
            ELSE [st |-> "ok",
                  d |-> [mk.d EXCEPT !.Objects = Append(@,
                            [Ft |-> mk.id, offset |-> s.r.cnt, Addr |-> v[1]])],
                  r |-> Skip(fl, s.r, mk.d.FTList[mk.id + 1].Size),
                  ftmap |-> s.ftmap]
    IN with(makeFullType(s.d, v[2], v[3], v[4]))

\* case tagObject, once addr, typaddr, kind and size are read
rawObject(fl, s, v) ==
    LET k == <<v[2], v[3], v[4]>>
        seen == k \in DOMAIN s.ftmap
        with(mk) ==
            IF mk.st # "ok"
            THEN [st |-> mk.st, d |-> s.d, r |-> s.r, ftmap |-> s.ftmap]
            ELSE [st |-> "ok",
                  d |-> [mk.d EXCEPT !.Objects = Append(@,
                            [Ft |-> mk.id, offset |-> s.r.cnt, Addr |-> v[1]])],
                  r |-> Skip(fl, s.r, mk.d.FTList[mk.id + 1].Size),
                  ftmap |-> IF seen THEN s.ftmap ELSE (k :> mk.id) @@ s.ftmap]
    IN with(IF seen THEN [st |-> "ok", d |-> s.d, id |-> s.ftmap[k]]
            ELSE makeFullType(s.d, v[2], v[3], v[4]))

\* a decoder that keeps every Type record, the map naming the last one
rawTypeKeepAll(dd, v) ==
    [dd EXCEPT
       !.Types = Append(@, [Name |-> v[3], Size |-> v[2],
                            efaceptr |-> v[4], Fields |-> v[5],
                            Addr |-> v[1]]),
       !.TypeMap = (v[1] :> (Len(dd.Types) + 1)) @@ @]

\* case tagType: a type whose address is in the map already is dropped
rawType(dd, v) ==
    IF v[1] \in DOMAIN dd.TypeMap THEN dd
    ELSE [dd EXCEPT
            !.Types = Append(@, [Name |-> v[3], Size |-> v[2],
                                 efaceptr |-> v[4], Fields |-> v[5],
                                 Addr |-> v[1]]),
            !.TypeMap = (v[1] :> (Len(dd.Types) + 1)) @@ @]

\* the other cases, once the record's values v are read
rawOther(dd, kind, v) ==
    CASE kind = tagOtherRoot ->
           [dd EXCEPT !.Otherroots = Append(@,
               [Description |-> v[1], toaddr |-> v[2],
                E |-> [To |-> 0, FromOffset |-> 0, ToOffset |-> 0, FieldName |-> ""]])]
      [] kind = tagType -> rawType(dd, v)
      [] kind = tagGoRoutine ->
           [dd EXCEPT !.Goroutines = Append(@,
               [Bos |-> 0, Ctxt |-> 0,
                Addr |-> v[1], bosaddr |-> v[2], Goid |-> v[3], Gopc |-> v[4],
                Status |-> v[5], IsSystem |-> v[6], IsBackground |-> v[7],
                WaitSince |-> v[8], WaitReason |-> v[9], ctxtaddr |-> v[10],
                maddr |-> v[11], deferaddr |-> v[12], panicaddr |-> v[13]])]
      [] kind = tagStackFrame ->
           [dd EXCEPT !.Frames = Append(@,
               [Name |-> v[7], Parent |-> 0, Goroutine |-> 0, Depth |-> v[2],
                Data |-> v[4], Edges |-> <<>>,
                Addr |-> v[1], childaddr |-> v[3], entry |-> v[5], pc |-> v[6],
                Fields |-> v[8]])]
      [] kind = tagParams ->
           [dd EXCEPT !.Order = IF v[1] = 0 THEN LittleEndian ELSE BigEndian,
                      !.PtrSize = v[2], !.HChanSize = v[3],
                      !.HeapStart = v[4], !.HeapEnd = v[5],
                      !.TheChar = v[6] % 256, !.Experiment = v[7],
                      !.Ncpu = v[8]]
      [] kind = tagFinalizer ->
           [dd EXCEPT !.Finalizers = Append(@,
               [obj |-> v[1], fn |-> v[2], code |-> v[3], fint |-> v[4],
                ot |-> v[5]])]
      [] kind = tagQFinal ->
           [dd EXCEPT !.QFinal = Append(@,
               [obj |-> v[1], fn |-> v[2], code |-> v[3], fint |-> v[4],
                ot |-> v[5], Edges |-> <<>>])]
      [] kind = tagData ->
           [dd EXCEPT !.Data = <<[Addr |-> v[1], Data |-> v[2],
                                  Fields |-> v[3], Edges |-> <<>>]>>]
      [] kind = tagBss ->
           [dd EXCEPT !.Bss = <<[Addr |-> v[1], Data |-> v[2],
                                 Fields |-> v[3], Edges |-> <<>>]>>]
      [] kind = tagItab ->
           [dd EXCEPT !.ItabMap = (v[1] :> v[2]) @@ @]
      [] kind = tagOSThread ->
           [dd EXCEPT !.Osthreads = Append(@,
               [addr |-> v[1], id |-> v[2], procid |-> v[3]])]
      [] kind = tagMemStats -> [dd EXCEPT !.Memstats = <<v>>]
      [] kind = tagDefer ->
           [dd EXCEPT !.Defers = Append(@,
               [addr |-> v[1], gp |-> v[2], argp |-> v[3], pc |-> v[4],
                fn |-> v[5], code |-> v[6], link |-> v[7]])]
      [] kind = tagPanic ->
           [dd EXCEPT !.Panics = Append(@,
               [addr |-> v[1], gp |-> v[2], typ |-> v[3], data |-> v[4],
                defr |-> v[5], link |-> v[6]])]

\* the for loop of rawRead: records up to the EOF tag
RECURSIVE rawRecords(_, _)
rawRecords(fl, s) ==
    LET object(x, o) ==
            IF o.st # "ok" THEN [st |-> o.st, d |-> s.d, r |-> x.r]
            ELSE rawRecords(fl, [d |-> o.d, r |-> o.r, ftmap |-> o.ftmap])
        record(kind, x) ==
            IF x.st # "ok" THEN [st |-> x.st, d |-> s.d, r |-> x.r]
            ELSE IF kind.v = tagObject
                 THEN object(x, rawObject(fl, [s EXCEPT !.r = x.r], x.v))
                 ELSE rawRecords(fl, [d |-> rawOther(s.d, kind.v, x.v),
                                      r |-> x.r, ftmap |-> s.ftmap])
        with(kind) ==
            IF kind.st # "ok" THEN [st |-> kind.st, d |-> s.d, r |-> kind.r]
            ELSE IF kind.v = tagEOF THEN [st |-> "ok", d |-> s.d, r |-> kind.r]
            ELSE IF kind.v \notin 1..15
                 THEN [st |-> "fatal", d |-> s.d, r |-> kind.r]
                 ELSE record(kind, readItems(fl, kind.r, RecordFormat(kind.v),
                                             <<>>))
    IN with(readUint64(fl, s.r))

rawRead(fl) ==
    LET with(hdr) ==
            IF ~hdr.ok THEN [st |-> "fatal", d |-> NewDump, r |-> hdr.r]
            ELSE IF hdr.isPrefix \/ hdr.line # HeaderLine
                 THEN [st |-> "fatal", d |-> NewDump, r |-> hdr.r]
                 ELSE rawRecords(fl, [d |-> NewDump, r |-> hdr.r,
                                      ftmap |-> <<>>])
    IN with(ReadLine(fl, NewReader))

(***************************************************************************)
(* Naming without DWARF, and the fields of the full types.                 *)
(***************************************************************************)
\* run F on the Dump of r unless r has already stopped the process
Then(r, F(_)) == IF r.st # "ok" THEN r ELSE F(r.d)

Renamed(fields, prefix) ==
    [i \in 1..Len(fields) |->
        [fields[i] EXCEPT !.Name = prefix \o ToString(i - 1)]]

\* nameFallback: generic names; d.Data and d.Bss are dereferenced
nameFallback(dd) ==
    LET d1 == [dd EXCEPT
                 !.Types = [i \in 1..Len(dd.Types) |->
                     [dd.Types[i] EXCEPT !.Fields = Renamed(@, "field")]],
                 !.Frames = [i \in 1..Len(dd.Frames) |->
                     [dd.Frames[i] EXCEPT !.Fields = Renamed(@, "var")]]]
    IN IF dd.Data = <<>> THEN [st |-> "panic", d |-> d1]
       ELSE LET d2 == [d1 EXCEPT !.Data[1].Fields = Renamed(@, "data")] IN
            IF dd.Bss = <<>> THEN [st |-> "panic", d |-> d2]
            ELSE [st |-> "ok",
                  d |-> [d2 EXCEPT !.Bss[1].Fields = Renamed(@, "bss")]]

\* fmt's %x
HexDigits == <<"0", "1", "2", "3", "4", "5", "6", "7",
               "8", "9", "a", "b", "c", "d", "e", "f">>
RECURSIVE ToHex(_)
ToHex(n) ==
    IF n < 16 THEN HexDigits[n + 1]
    ELSE ToHex(n \div 16) \o HexDigits[(n % 16) + 1]

\* number of rounds of  for i := from; i < to; i += step  (step > 0)
Rounds(from, to, step) ==
    IF to <= from THEN 0 ELSE ((to - from) + step - 1) \div step

\* the fields of the elements of an array or channel: for i := from;
\* i <= size - t.Size; i += t.Size, element (i - from) / t.Size at offset i
ElemFields(T, from, size) ==
    LET n == ((size - T.Size) - from) \div T.Size + 1
        nf == Len(T.Fields)
    IN IF size - T.Size < from \/ nf = 0 THEN <<>>
       ELSE [j \in 1..(n * nf) |->
               LET e == (j - 1) \div nf
                   f == T.Fields[((j - 1) % nf) + 1]
               IN [Kind |-> f.Kind,
                   Offset |-> from + e * T.Size + f.Offset,
                   Name |-> IF f.Name # "" THEN ToString(e) \o "." \o f.Name
                            ELSE ToString(e)]]

\* the channel header's pseudo fields (chanFields)
ChanFieldName(ptrSize, i) ==
    CASE ptrSize = 4 /\ i = 0 -> "len"
      [] ptrSize = 4 /\ i = 4 -> "cap"
      [] ptrSize = 4 /\ i = 20 -> "next send index"
      [] ptrSize = 4 /\ i = 24 -> "next receive index"
      [] ptrSize = 8 /\ i = 0 -> "len"
      [] ptrSize = 8 /\ i = 8 -> "cap"
      [] ptrSize = 8 /\ i = 32 -> "next send index"
      [] ptrSize = 8 /\ i = 40 -> "next receive index"
      [] OTHER -> "chanhdr"

\* one round of nameFullTypes: the fields of full type ft.  In uint64
\* arithmetic ft.Size - t.Size wraps around when the element is larger than
\* the object, and the element loop then runs on ("hang"), as does a loop
\* whose step is 0.
fullTypeFields(dd, ft) ==
    LET T == dd.Types[ft.Typ] IN
    CASE ft.Typ = 0 /\ ft.Kind = TypeKindConservative ->
           IF ft.Size > 0 /\ dd.PtrSize = 0 THEN [st |-> "hang", v |-> <<>>]
           ELSE [st |-> "ok",
                 v |-> [j \in 1..Rounds(0, ft.Size, dd.PtrSize) |->
                          [Kind |-> FieldKindPtr,
                           Offset |-> (j - 1) * dd.PtrSize,
                           Name |-> "~" \o ToString((j - 1) * dd.PtrSize)]]]
      [] ft.Typ = 0 /\ ft.Kind = TypeKindObject ->
           IF ft.Size % 16 \notin {0, 8} THEN [st |-> "fatal", v |-> <<>>]
           ELSE [st |-> "ok",
                 v |-> [j \in 1..Rounds(0, ft.Size, 16) |->
                          [Kind |-> IF ft.Size - (j - 1) * 16 >= 16
                                    THEN FieldKindBytes16 ELSE FieldKindBytes8,
                           Offset |-> (j - 1) * 16,
                           Name |-> "offset " \o ToHex((j - 1) * 16)]]]
      [] ft.Typ # 0 /\ ft.Kind = TypeKindObject ->
           [st |-> "ok", v |-> T.Fields]
      [] ft.Typ # 0 /\ ft.Kind = TypeKindArray ->
           IF ft.Size < T.Size \/ T.Size = 0 THEN [st |-> "hang", v |-> <<>>]
           ELSE [st |-> "ok", v |-> ElemFields(T, 0, ft.Size)]
      [] ft.Typ # 0 /\ ft.Kind = TypeKindChan ->
           IF dd.PtrSize \notin {4, 8} THEN [st |-> "fatal", v |-> <<>>]
           ELSE LET k == IF dd.PtrSize = 4 THEN FieldKindUInt32
                         ELSE FieldKindUInt64
                    hdr == [j \in 1..Rounds(0, dd.HChanSize, dd.PtrSize) |->
                              [Kind |-> k, Offset |-> (j - 1) * dd.PtrSize,
                               Name |-> ChanFieldName(dd.PtrSize,
                                                      (j - 1) * dd.PtrSize)]]
                IN IF T.Size = 0 THEN [st |-> "ok", v |-> hdr]
                   ELSE IF ft.Size < T.Size THEN [st |-> "hang", v |-> <<>>]
                   ELSE [st |-> "ok",
                         v |-> hdr \o ElemFields(T, dd.HChanSize, ft.Size)]
      [] OTHER -> [st |-> "fatal", v |-> <<>>]

\* nameFullTypes: the full types in the order of FTList, from the k-th on
RECURSIVE nameFullTypesFrom(_, _)
nameFullTypesFrom(dd, k) ==
    IF k > Len(dd.FTList) THEN [st |-> "ok", d |-> dd]
    ELSE LET with(f) ==
                 IF f.st # "ok" THEN [st |-> f.st, d |-> dd]
                 ELSE nameFullTypesFrom([dd EXCEPT !.FTList[k].Fields = f.v],
                                        k + 1)
         IN with(fullTypeFields(dd, dd.FTList[k]))

nameFullTypes(dd) == nameFullTypesFrom(dd, 1)

(***************************************************************************)
(* Object lookup, object contents, edges.                                  *)
(***************************************************************************)
\* the for loop of findObj, from object index i on
RECURSIVE findObjFrom(_, _, _)
findObjFrom(dd, addr, i) ==
    IF i >= Len(dd.Objects) THEN ObjNil
    ELSE LET x == dd.Objects[i + 1] IN
         IF addr < x.Addr THEN ObjNil
         ELSE IF addr < x.Addr + dd.FTList[x.Ft + 1].Size THEN i
         ELSE findObjFrom(dd, addr, i + 1)

\* the same loop without the early exit at a gap: a slip findObj could make
findObjNoGapFrom(dd, addr, i) ==
    LET hit == {j \in i..(Len(dd.Objects) - 1) :
                  addr < dd.Objects[j + 1].Addr
                         + dd.FTList[dd.Objects[j + 1].Ft + 1].Size}
    IN IF hit = {} THEN ObjNil ELSE CHOOSE j \in hit : \A k \in hit : j <= k

findObjNoGap(dd, addr) ==
    IF addr < dd.HeapStart \/ addr >= dd.HeapEnd
    THEN [st |-> "ok", v |-> ObjNil]
    ELSE LET b == (addr - dd.HeapStart) \div bucketSize IN
         IF b >= Len(dd.idx) THEN [st |-> "panic", v |-> ObjNil]
         ELSE [st |-> "ok", v |-> findObjNoGapFrom(dd, addr, dd.idx[b + 1])]

\* Dump.findObj; reading d.idx past its end panics
findObj(dd, addr) ==
    IF addr < dd.HeapStart \/ addr >= dd.HeapEnd
    THEN [st |-> "ok", v |-> ObjNil]
    ELSE LET b == (addr - dd.HeapStart) \div bucketSize IN
         IF b >= Len(dd.idx) THEN [st |-> "panic", v |-> ObjNil]
         ELSE [st |-> "ok", v |-> findObjFrom(dd, addr, dd.idx[b + 1])]

\* readPtr on the bytes b; reading past the end of b panics
readPtr(dd, b) ==
    CASE dd.Order = LittleEndian /\ dd.PtrSize = 4 ->
           IF Len(b) < 4 THEN [st |-> "panic", v |-> 0]
           ELSE [st |-> "ok",
                 v |-> b[1] + Shl(b[2], 8) + Shl(b[3], 16) + Shl(b[4], 24)]
      [] dd.Order = BigEndian /\ dd.PtrSize = 4 ->
           IF Len(b) < 4 THEN [st |-> "panic", v |-> 0]
           ELSE [st |-> "ok",
                 v |-> b[4] + Shl(b[3], 8) + Shl(b[2], 16) + Shl(b[1], 24)]
      [] dd.Order = LittleEndian /\ dd.PtrSize = 8 ->
           IF Len(b) < 8 THEN [st |-> "panic", v |-> 0]
           ELSE [st |-> "ok",
                 v |-> b[1] + Shl(b[2], 8) + Shl(b[3], 16) + Shl(b[4], 24)
                       + Shl(b[5], 32) + Shl(b[6], 40) + Shl(b[7], 48)
                       + Shl(b[8], 56)]
      [] dd.Order = BigEndian /\ dd.PtrSize = 8 ->
           IF Len(b) < 8 THEN [st |-> "panic", v |-> 0]
           ELSE [st |-> "ok",
                 v |-> b[8] + Shl(b[7], 8) + Shl(b[6], 16) + Shl(b[5], 24)
                       + Shl(b[4], 32) + Shl(b[3], 40) + Shl(b[2], 48)
                       + Shl(b[1], 56)]
      [] OTHER -> [st |-> "fatal", v |-> 0]

\* readPtr(d, b[off:]); slicing past the end of b panics
readPtrAt(dd, b, off) ==
    IF off > Len(b) THEN [st |-> "panic", v |-> 0]
    ELSE readPtr(dd, SliceFrom(b, off))

ZeroEdge == [To |-> 0, FromOffset |-> 0, ToOffset |-> 0, FieldName |-> ""]
NoEdge(st) == [st |-> st, has |-> FALSE, e |-> ZeroEdge]

\* the edge, if any, of the pointer of field f read at offset off of b (the
\* three lines Edges repeats: readPtr, findObj, append if not ObjNil)
pointerEdge(dd, b, off, f) ==
    LET found(p, y) ==
            IF y.st # "ok" THEN NoEdge(y.st)
            ELSE IF y.v = ObjNil THEN NoEdge("ok")
            ELSE [st |-> "ok", has |-> TRUE,
                  e |-> [To |-> y.v, FromOffset |-> off,
                         ToOffset |-> p.v - Addr(dd, y.v),
                         FieldName |-> f.Name]]
        with(p) == IF p.st # "ok" THEN NoEdge(p.st)
                   ELSE found(p, findObj(dd, p.v))
    IN with(readPtrAt(dd, b, off))

\* the switch of Edges for one field f over the object's bytes b
fieldEdge(dd, b, f) ==
    LET eface(taddr) ==
            IF taddr.st # "ok" THEN NoEdge(taddr.st)
            ELSE IF taddr.v = 0 THEN NoEdge("ok")
            ELSE IF taddr.v \notin DOMAIN dd.TypeMap THEN NoEdge("fatal")
            ELSE IF dd.Types[dd.TypeMap[taddr.v]].efaceptr
                 THEN pointerEdge(dd, b, f.Offset + dd.PtrSize, f)
                 ELSE NoEdge("ok")
        iface(itabaddr) ==
            IF itabaddr.st # "ok" THEN NoEdge(itabaddr.st)
            ELSE IF itabaddr.v = 0 THEN NoEdge("ok")
            ELSE IF itabaddr.v \notin DOMAIN dd.ItabMap THEN NoEdge("fatal")
            ELSE IF dd.ItabMap[itabaddr.v]
                 THEN pointerEdge(dd, b, f.Offset + dd.PtrSize, f)
                 ELSE NoEdge("ok")
    IN CASE f.Kind \in {FieldKindPtr, FieldKindString, FieldKindSlice} ->
              pointerEdge(dd, b, f.Offset, f)
         [] f.Kind = FieldKindEface -> eface(readPtrAt(dd, b, f.Offset))
         [] f.Kind = FieldKindIface -> iface(readPtrAt(dd, b, f.Offset))
         [] OTHER -> NoEdge("ok")

\* make([]T, n): a new array of n zero values; the slice over it
Make(mm, n, zero) ==
    [mem |-> Append(mm, [k \in 1..n |-> zero]),
     s |-> [arr |-> Len(mm) + 1, len |-> n]]

\* an append that never writes in place: every call copies into a new array
GoAppendFresh(mm, s, v, zero) ==
    [mem |-> Append(mm, [k \in 1..(s.len + 1) |->
                           IF k <= s.len THEN mm[s.arr][k] ELSE v]),
     s |-> [arr |-> Len(mm) + 1, len |-> s.len + 1]]

\* append(s, v): in place while the capacity lasts, else into a new array of
\* twice the capacity (the Go runtime's growth for small slices)
GoAppend(mm, s, v, zero) ==
    IF s.len < Cap(mm, s)
    THEN [mem |-> [mm EXCEPT ![s.arr][s.len + 1] = v],
          s |-> [s EXCEPT !.len = @ + 1]]
    ELSE LET newcap == IF s.len = 0 THEN 1 ELSE 2 * s.len
             arr == [k \in 1..newcap |->
                       IF k <= s.len THEN mm[s.arr][k]
                       ELSE IF k = s.len + 1 THEN v ELSE zero]
         IN [mem |-> Append(mm, arr),
             s |-> [arr |-> Len(mm) + 1, len |-> s.len + 1]]

\* a Contents that trusts a buffer that is large enough to hold the object
\* already: a slip Contents could make
ContentsStale(dd, mm, fl, i) ==
    LET size == Size(dd, i)
        grow == Cap(mm, dd.buf) < size
        mk == Make(mm, size, 0)
        b == IF grow THEN mk.s ELSE [arr |-> dd.buf.arr, len |-> size]
        m1 == IF grow THEN mk.mem ELSE mm
        off == dd.Objects[i + 1].offset
    IN [st |-> IF size > 0 /\ off + size > Len(fl) THEN "fatal" ELSE "ok",
        d |-> IF grow THEN [dd EXCEPT !.buf = b] ELSE dd,
        mem |-> IF grow /\ size > 0
                THEN [m1 EXCEPT ![b.arr] =
                        [k \in 1..Len(@) |->
                           IF k <= Min(size, Len(fl) - off) THEN fl[off + k]
                           ELSE @[k]]]
                ELSE m1,
        b |-> b]

\* Dump.Contents: the object's bytes, read from the file into d.buf
Contents(dd, mm, fl, i) ==
    LET size == Size(dd, i)
        grow == Cap(mm, dd.buf) < size
        mk == Make(mm, size, 0)
        b == IF grow THEN mk.s ELSE [arr |-> dd.buf.arr, len |-> size]
        m1 == IF grow THEN mk.mem ELSE mm
        off == dd.Objects[i + 1].offset
    IN [st |-> IF size > 0 /\ off + size > Len(fl) THEN "fatal" ELSE "ok",
        d |-> IF grow THEN [dd EXCEPT !.buf = b] ELSE dd,
        mem |-> IF size > 0
                THEN [m1 EXCEPT ![b.arr] =
                        [k \in 1..Len(@) |->
                           IF k <= Min(size, Len(fl) - off) THEN fl[off + k]
                           ELSE @[k]]]
                ELSE m1,
        b |-> b]

\* the for loop of Edges from field k on: e is the slice built so far
RECURSIVE edgesLoop(_, _, _, _, _, _)
edgesLoop(dd, mm, b, fields, k, e) ==
    IF k > Len(fields) THEN [st |-> "ok", mem |-> mm, e |-> e]
    ELSE LET appended(a) == edgesLoop(dd, a.mem, b, fields, k + 1, a.s)
             with(x) ==
                 IF x.st # "ok" THEN [st |-> x.st, mem |-> mm, e |-> e]
                 ELSE IF x.has THEN appended(GoAppend(mm, e, x.e, ZeroEdge))
                 ELSE edgesLoop(dd, mm, b, fields, k + 1, e)
         IN with(fieldEdge(dd, b, fields[k]))

\* Dump.Edges: the edges of object i, built in d.edges
Edges(dd, mm, fl, i) ==
    LET done(c, l) ==
            [st |-> l.st,
             d |-> IF l.st = "ok" THEN [c.d EXCEPT !.edges = l.e] ELSE c.d,
             mem |-> l.mem, e |-> l.e]
        with(c) ==
            IF c.st # "ok"
            THEN [st |-> c.st, d |-> c.d, mem |-> c.mem, e |-> NilSlice]
            ELSE done(c, edgesLoop(c.d, c.mem, View(c.mem, c.b),
                                   Ft(dd, i).Fields, 1,
                                   [arr |-> dd.edges.arr, len |-> 0]))
    IN with(Contents(dd, mm, fl, i))

(***************************************************************************)
(* The linker.                                                             *)
(***************************************************************************)
\* appendEdge: an edge for the pointer at data[off:], if it lands in an object
appendEdge(dd, edges, data, off, f) ==
    LET with(x) ==
            [st |-> x.st,
             v |-> IF x.st = "ok" /\ x.has THEN Append(edges, x.e) ELSE edges]
    IN with(pointerEdge(dd, data, off, f))

\* appendFields from field k on
RECURSIVE appendFieldsFrom(_, _, _, _, _)
appendFieldsFrom(dd, edges, data, fields, k) ==
    IF k > Len(fields) THEN [st |-> "ok", v |-> edges]
    ELSE
    LET f == fields[k]
        off == f.Offset
        eface(one, tp) ==
            IF one.st # "ok" THEN one
            ELSE IF tp.v = 0 \/ tp.v \notin DOMAIN dd.TypeMap THEN one
            ELSE IF dd.Types[dd.TypeMap[tp.v]].efaceptr
                 THEN appendEdge(dd, one.v, data, off + dd.PtrSize, f)
                 ELSE one
        iface(tp) ==
            IF tp.st # "ok" THEN [st |-> tp.st, v |-> edges]
            ELSE IF tp.v # 0 /\ tp.v \in DOMAIN dd.ItabMap /\ dd.ItabMap[tp.v]
                 THEN appendEdge(dd, edges, data, off + dd.PtrSize, f)
                 ELSE [st |-> "ok", v |-> edges]
        next(r) == IF r.st # "ok" THEN r
                   ELSE appendFieldsFrom(dd, r.v, data, fields, k + 1)
    IN next(CASE off >= Len(data) -> [st |-> "ok", v |-> edges]
              [] off < Len(data) /\ f.Kind \in {FieldKindPtr, FieldKindString,
                                                FieldKindSlice} ->
                   appendEdge(dd, edges, data, off, f)
              [] off < Len(data) /\ f.Kind = FieldKindEface ->
                   eface(appendEdge(dd, edges, data, off, f),
                         readPtrAt(dd, data, off))
              [] off < Len(data) /\ f.Kind = FieldKindIface ->
                   iface(readPtrAt(dd, data, off))
              [] OTHER -> [st |-> "ok", v |-> edges])

\* an appendFields that starts from no edges instead of the edges given
appendFieldsFresh(dd, edges, data, fields) ==
    appendFieldsFrom(dd, <<>>, data, fields, 1)

\* Dump.appendFields
appendFields(dd, edges, data, fields) ==
    appendFieldsFrom(dd, edges, data, fields, 1)

\* sort.Sort(byAddr(d.Objects)): for the few objects of the model Go's sort
\* is an insertion sort, which keeps equal addresses in their order
RECURSIVE InsertByAddr(_, _)
InsertByAddr(sorted, x) ==
    IF sorted = <<>> THEN <<x>>
    ELSE IF sorted[Len(sorted)].Addr <= x.Addr THEN Append(sorted, x)
    ELSE Append(InsertByAddr(SubSeq(sorted, 1, Len(sorted) - 1), x),
                sorted[Len(sorted)])

RECURSIVE sortByAddrFrom(_, _, _)
sortByAddrFrom(objs, k, acc) ==
    IF k > Len(objs) THEN acc
    ELSE sortByAddrFrom(objs, k + 1, InsertByAddr(acc, objs[k]))

sortByAddr(objs) == sortByAddrFrom(objs, 1, <<>>)

\* an index whose bucket b holds the first object at or after bucket b
fillIndexForward(dd, n) ==
    [b \in 1..n |->
        LET at == {i \in 0..(Len(dd.Objects) - 1) :
                     (dd.Objects[i + 1].Addr - dd.HeapStart) \div bucketSize >= b - 1}
        IN IF at = {} THEN Len(dd.Objects)
           ELSE CHOOSE i \in at : \A j \in at : i <= j]

\* the two loops that fill the index: every bucket holds len(d.Objects), then,
\* from the last object down to the first, the bucket of the object's
\* address holds the object's index
fillIndex(dd, n) ==
    [b \in 1..n |->
        LET at == {i \in 0..(Len(dd.Objects) - 1) :
                     (dd.Objects[i + 1].Addr - dd.HeapStart) \div bucketSize = b - 1}
        IN IF at = {} THEN Len(dd.Objects)
           ELSE CHOOSE i \in at : \A j \in at : i <= j]

\* link, part 1: sort the objects and build the index.  An object outside
\* [HeapStart, HeapStart + 256 * len(idx)) indexes idx out of range; a heap
\* that ends before it starts asks for an array of about 2^64 entries.
linkIndex(dd) ==
    LET d1 == [dd EXCEPT !.Objects = sortByAddr(@)]
        n == (dd.HeapEnd - dd.HeapStart) \div bucketSize
    IN IF dd.HeapEnd < dd.HeapStart THEN [st |-> "panic", d |-> d1]
       ELSE IF \E i \in 1..Len(d1.Objects) :
                  \/ d1.Objects[i].Addr < dd.HeapStart
                  \/ (d1.Objects[i].Addr - dd.HeapStart) \div bucketSize >= n
            THEN [st |-> "panic", d |-> d1]
            ELSE [st |-> "ok", d |-> [d1 EXCEPT !.idx = fillIndex(d1, n)]]

\* the map frames of link: the last frame with a given (sp, depth) wins
FrameAt(dd, sp, depth) ==
    LET at == {i \in 1..Len(dd.Frames) :
                 dd.Frames[i].Addr = sp /\ dd.Frames[i].Depth = depth}
    IN IF at = {} THEN 0 ELSE CHOOSE i \in at : \A j \in at : j <= i

\* link, part 2: the edges of the frames, from frame k on
RECURSIVE linkFrameEdgesFrom(_, _)
linkFrameEdgesFrom(dd, k) ==
    IF k > Len(dd.Frames) THEN [st |-> "ok", d |-> dd]
    ELSE LET f == dd.Frames[k]
             with(e) ==
                 IF e.st # "ok" THEN [st |-> e.st, d |-> dd]
                 ELSE linkFrameEdgesFrom([dd EXCEPT !.Frames[k].Edges = e.v],
                                         k + 1)
         IN with(appendFields(dd, f.Edges, f.Data, f.Fields))

linkFrameEdges(dd) == linkFrameEdgesFrom(dd, 1)

\* link, part 3: g.Parent = f for the frame g that frame f names as its
\* child; a child that is not in the map is a nil dereference
RECURSIVE linkParentsFrom(_, _)
linkParentsFrom(dd, k) ==
    IF k > Len(dd.Frames) THEN [st |-> "ok", d |-> dd]
    ELSE LET f == dd.Frames[k] IN
         IF f.Depth = 0 THEN linkParentsFrom(dd, k + 1)
         ELSE LET g == FrameAt(dd, f.childaddr, f.Depth - 1) IN
              IF g = 0 THEN [st |-> "panic", d |-> dd]
              ELSE linkParentsFrom([dd EXCEPT !.Frames[g].Parent = k], k + 1)

\* a linker that sets f.Parent = g instead: the frame at depth n + 1 gets
\* the frame it names as its child as its parent
linkParentsReversed(dd) ==
    IF \E k \in 1..Len(dd.Frames) :
          dd.Frames[k].Depth # 0
            /\ FrameAt(dd, dd.Frames[k].childaddr, dd.Frames[k].Depth - 1) = 0
    THEN [st |-> "panic", d |-> dd]
    ELSE [st |-> "ok",
          d |-> [dd EXCEPT !.Frames = [k \in 1..Len(dd.Frames) |->
                    IF dd.Frames[k].Depth = 0 THEN dd.Frames[k]
                    ELSE [dd.Frames[k] EXCEPT !.Parent =
                            FrameAt(dd, dd.Frames[k].childaddr,
                                    dd.Frames[k].Depth - 1)]]]]

linkParents(dd) == linkParentsFrom(dd, 1)

\* for f := g.Bos; f != nil; f = f.Parent { f.Goroutine = g }
RECURSIVE ownFrames(_, _, _)
ownFrames(frames, f, g) ==
    IF f = 0 THEN frames
    ELSE ownFrames([frames EXCEPT ![f].Goroutine = g], frames[f].Parent, g)

\* link, part 4: goroutines, from goroutine k on
RECURSIVE linkGoroutinesFrom(_, _)
linkGoroutinesFrom(dd, k) ==
    IF k > Len(dd.Goroutines) THEN [st |-> "ok", d |-> dd]
    ELSE LET g == dd.Goroutines[k]
             with(bos, x) ==
                 IF bos = 0 THEN [st |-> "fatal", d |-> dd]
                 ELSE IF x.st # "ok" THEN [st |-> x.st, d |-> dd]
                 ELSE linkGoroutinesFrom(
                        [dd EXCEPT !.Goroutines[k].Bos = bos,
                                   !.Goroutines[k].Ctxt =
                                       IF x.v # ObjNil THEN x.v ELSE @,
                                   !.Frames = ownFrames(@, bos, k)],
                        k + 1)
         IN with(FrameAt(dd, g.bosaddr, 0), findObj(dd, g.ctxtaddr))

linkGoroutines(dd) == linkGoroutinesFrom(dd, 1)

\* link, part 5: the edges of d.Data, then of d.Bss
linkData(dd) ==
    IF dd.Data = <<>> THEN [st |-> "panic", d |-> dd]
    ELSE LET x == dd.Data[1]
             bss(d1, e2) ==
                 IF e2.st # "ok" THEN [st |-> e2.st, d |-> d1]
                 ELSE [st |-> "ok", d |-> [d1 EXCEPT !.Bss[1].Edges = e2.v]]
             data(d1) ==
                 IF dd.Bss = <<>> THEN [st |-> "panic", d |-> d1]
                 ELSE bss(d1, appendFields(d1, dd.Bss[1].Edges, dd.Bss[1].Data,
                                           dd.Bss[1].Fields))
             with(e) ==
                 IF e.st # "ok" THEN [st |-> e.st, d |-> dd]
                 ELSE data([dd EXCEPT !.Data[1].Edges = e.v])
         IN with(appendFields(dd, x.Edges, x.Data, x.Fields))

\* link, part 6: the other roots, from root k on
RECURSIVE linkOtherRootsFrom(_, _)
linkOtherRootsFrom(dd, k) ==
    IF k > Len(dd.Otherroots) THEN [st |-> "ok", d |-> dd]
    ELSE LET r == dd.Otherroots[k]
             with(x) ==
                 IF x.st # "ok" THEN [st |-> x.st, d |-> dd]
                 ELSE linkOtherRootsFrom(
                        IF x.v = ObjNil THEN dd
                        ELSE [dd EXCEPT !.Otherroots[k].E =
                                [To |-> x.v, FromOffset |-> 0,
                                 ToOffset |-> r.toaddr - Addr(dd, x.v),
                                 FieldName |-> ""]],
                        k + 1)
         IN with(findObj(dd, r.toaddr))

linkOtherRoots(dd) == linkOtherRootsFrom(dd, 1)

\* the edges of the addresses addrs[k..], appended to edges
RECURSIVE addrEdgesFrom(_, _, _, _)
addrEdgesFrom(dd, edges, addrs, k) ==
    IF k > Len(addrs) THEN [st |-> "ok", v |-> edges]
    ELSE LET with(x) ==
                 IF x.st # "ok" THEN [st |-> x.st, v |-> edges]
                 ELSE addrEdgesFrom(dd,
                        IF x.v = ObjNil THEN edges
                        ELSE Append(edges, [To |-> x.v, FromOffset |-> 0,
                                            ToOffset |-> addrs[k] - Addr(dd, x.v),
                                            FieldName |-> ""]),
                        addrs, k + 1)
         IN with(findObj(dd, addrs[k]))

\* link, part 7: the finalizers that are ready to run, from the k-th on
RECURSIVE linkQFinalFrom(_, _)
linkQFinalFrom(dd, k) ==
    IF k > Len(dd.QFinal) THEN [st |-> "ok", d |-> dd]
    ELSE LET f == dd.QFinal[k]
             with(e) ==
                 IF e.st # "ok" THEN [st |-> e.st, d |-> dd]
                 ELSE linkQFinalFrom([dd EXCEPT !.QFinal[k].Edges = e.v], k + 1)
         IN with(addrEdgesFrom(dd, f.Edges, <<f.obj, f.fn, f.fint, f.ot>>, 1))

linkQFinal(dd) == linkQFinalFrom(dd, 1)

\* link: its passes in the order of the code
link(dd) ==
    Then(Then(Then(Then(Then(Then(linkIndex(dd),
        linkFrameEdges), linkParents), linkGoroutines), linkData),
        linkOtherRoots), linkQFinal)

\* Read(dumpname, "") once the file is open: no executable, so names come
\* from nameFallback
Read(fl) ==
    LET with(raw) ==
            Then(Then(Then([st |-> raw.st, d |-> raw.d],
                nameFallback), nameFullTypes), link)
    IN with(rawRead(fl))

(***************************************************************************)
(* The dump file: the records rawRead reads, written the way it reads      *)
(* them.  A record is a tuple: its tag, then its values in the order of    *)
(* RecordFormat (booleans as 0 or 1, strings as their bytes, fields as     *)
(* <<kind, offset>> pairs); an Object record ends with the object's bytes. *)
(***************************************************************************)
\* binary.PutUvarint
RECURSIVE EncUvarint(_)
EncUvarint(n) ==
    IF n < 128 THEN <<n>> ELSE <<128 + (n % 128)>> \o EncUvarint(n \div 128)

\* what readBytes and readString read: the length, then the bytes
EncBytes(bs) == EncUvarint(Len(bs)) \o bs

\* what readFields reads
RECURSIVE EncFields(_)
EncFields(fs) ==
    IF fs = <<>> THEN <<FieldKindEol>>
    ELSE EncUvarint(fs[1][1]) \o EncUvarint(fs[1][2]) \o EncFields(Tail(fs))

EncItem(what, v) ==
    CASE what = "u" -> EncUvarint(v)
      [] what = "b" -> <<v>>
      [] what = "s" -> EncBytes(v)
      [] what = "y" -> EncBytes(v)
      [] what = "f" -> EncFields(v)

RECURSIVE EncItems(_, _)
EncItems(fmt, vals) ==
    IF fmt = <<>> THEN <<>>
    ELSE EncItem(Head(fmt), Head(vals)) \o EncItems(Tail(fmt), Tail(vals))

EncRecord(rec) ==
    LET fmt == RecordFormat(rec[1]) IN
    EncUvarint(rec[1]) \o EncItems(fmt, SubSeq(rec, 2, Len(fmt) + 1))
        \o (IF rec[1] = tagObject THEN rec[6] ELSE <<>>)

RECURSIVE EncRecords(_)
EncRecords(recs) ==
    IF recs = <<>> THEN <<>> ELSE EncRecord(Head(recs)) \o EncRecords(Tail(recs))

\* a whole file: the header line, the records, the EOF tag
EncDump(recs) == HeaderLine \o <<10>> \o EncRecords(recs) \o <<tagEOF>>

\* the bytes of a pointer in memory, as readPtr reads them
RECURSIVE ByteOf(_, _)
ByteOf(v, k) == IF k = 0 THEN v % 256 ELSE ByteOf(v \div 256, k - 1)

PtrBytes(order, size, v) ==
    [k \in 1..size |->
        IF order = LittleEndian THEN ByteOf(v, k - 1) ELSE ByteOf(v, size - k)]

\* the bytes of consecutive little-endian 8-byte words
RECURSIVE Words(_)
Words(vs) ==
    IF vs = <<>> THEN <<>>
    ELSE PtrBytes(LittleEndian, 8, Head(vs)) \o Words(Tail(vs))

Zeros(n) == [k \in 1..n |-> 0]

(***************************************************************************)
(* The dumps of the model.  All have the parameters of a 64-bit            *)
(* little-endian runtime and a heap of 16 buckets at 0x10000.              *)
(***************************************************************************)
Heap0 == 16 * 4096
HeapSize == 16 * bucketSize

ParamsRec == <<tagParams, 0, 8, 96, Heap0, Heap0 + HeapSize, 54, <<>>, 1>>

\* type T: one pointer; type U: two pointers, the second written first;
\* type E: an empty interface; type V: a type whose interface data word is a
\* pointer; type I: a non-empty interface
TAddr == 1 * 256
UAddr == 2 * 256
EAddr == 3 * 256
VAddr == 4 * 256
IAddr == 5 * 256
ItabP == 6 * 256
ItabN == 7 * 256

TypeT == <<tagType, TAddr, 16, <<84>>, 0, << <<FieldKindPtr, 0>> >> >>
TypeU == <<tagType, UAddr, 16, <<85>>, 0,
           << <<FieldKindPtr, 8>>, <<FieldKindPtr, 0>> >> >>
TypeE == <<tagType, EAddr, 16, <<69>>, 0, << <<FieldKindEface, 0>> >> >>
TypeV == <<tagType, VAddr, 8, <<86>>, 1, <<>> >>
TypeI == <<tagType, IAddr, 16, <<73>>, 0, << <<FieldKindIface, 0>> >> >>

ObjectRec(addr, typaddr, size, body) ==
    <<tagObject, addr, typaddr, TypeKindObject, size, body>>

\* a data or bss segment holding the pointers ptrs, one Ptr field each
SegRec(tag, addr, ptrs) ==
    <<tag, addr, Words(ptrs),
      [k \in 1..Len(ptrs) |-> <<FieldKindPtr, 8 * (k - 1)>>]>>

\* the minimal dump of the end-to-end scenario: one object of type T at the
\* start of the heap whose pointer holds 0x10008 + k, one typeless object
\* at 0x10008; with or without (empty) data and bss segments
ScenarioFile(k, segs) ==
    EncDump(<<ParamsRec, TypeT,
              ObjectRec(Heap0, TAddr, 16, Words(<<Heap0 + 8 + k, 0>>)),
              ObjectRec(Heap0 + 8, 0, 16, Zeros(16))>>
            \o (IF segs THEN <<SegRec(tagData, 2 * 4096, <<>>),
                               SegRec(tagBss, 3 * 4096, <<>>)>>
                ELSE <<>>))

\* three objects that do not overlap, written out of address order: a (type
\* U) at the start of the heap, b (type T) right after it, c (typeless, 32
\* bytes) across the boundary of buckets 0 and 1; a global pointer g
AddrA == Heap0
AddrB == Heap0 + 16
AddrC == Heap0 + 240

LayoutFile(p1, p2, p3, g) ==
    EncDump(<<ParamsRec, TypeT, TypeU,
              ObjectRec(AddrB, TAddr, 16, Words(<<p3, 0>>)),
              ObjectRec(AddrC, 0, 32, Zeros(32)),
              ObjectRec(AddrA, UAddr, 16, Words(<<p1, p2>>)),
              SegRec(tagData, 2 * 4096, <<g>>),
              SegRec(tagBss, 3 * 4096, <<>>)>>)

\* where the pointers of the model point: nowhere, into a, at b, into the
\* gap after b, into c within bucket 0, into c within bucket 1
PtrChoices == {0, AddrA + 8, AddrB, AddrB + 16, AddrC + 8, AddrC + 24}

\* a frame record; the frame at depth 0 is the innermost one, and the frame
\* at depth n + 1 names the one at depth n as its child
FrameRec(sp, depth, childaddr, data, name, fields) ==
    <<tagStackFrame, sp, depth, childaddr, data, 0, 0, name, fields>>

Sp0 == 12 * 4096
Sp1 == 12 * 4096 + 64

\* the objects of LayoutFile with a pointing at b and b into c, and roots of
\* every kind: a global g, a frame variable s, an empty interface (tp, s)
\* in the caller's frame, another root r, a goroutine whose context is c,
\* a finalizer queued for the object at qf
RootsFile(g, s, tp, r, c, qf) ==
    EncDump(<<ParamsRec, TypeT, TypeU, TypeV,
              ObjectRec(AddrB, TAddr, 16, Words(<<AddrC + 8, 0>>)),
              ObjectRec(AddrC, 0, 32, Zeros(32)),
              ObjectRec(AddrA, UAddr, 16, Words(<<AddrB, 0>>)),
              FrameRec(Sp0, 0, 0, Words(<<s>>), <<70>>,
                       << <<FieldKindPtr, 0>> >>),
              FrameRec(Sp1, 1, Sp0, Words(<<tp, s>>), <<71>>,
                       << <<FieldKindEface, 0>> >>),
              <<tagGoRoutine, 13 * 4096, Sp0, 1, 0, 0, 0, 0, 0, <<>>, c,
                0, 0, 0>>,
              <<tagOtherRoot, <<82>>, r>>,
              <<tagQFinal, qf, 0, 0, AddrB, 0>>,
              SegRec(tagData, 2 * 4096, <<g>>),
              SegRec(tagBss, 3 * 4096, <<g, 0>>)>>)

\* an object with an empty interface (type word tp, data word dp), one with
\* a non-empty interface (itab word it, data word ip), and a typeless one
IfaceFile(tp, dp, it, ip) ==
    EncDump(<<ParamsRec, TypeT, TypeE, TypeV, TypeI,
              <<tagItab, ItabP, 1>>, <<tagItab, ItabN, 0>>,
              ObjectRec(Heap0, EAddr, 16, Words(<<tp, dp>>)),
              ObjectRec(Heap0 + 16, IAddr, 16, Words(<<it, ip>>)),
              ObjectRec(Heap0 + 32, 0, 16, Zeros(16)),
              SegRec(tagData, 2 * 4096, <<Heap0>>),
              SegRec(tagBss, 3 * 4096, <<Heap0 + 16>>)>>)

\* a typeless object larger than a bucket, and after it an object of type T
\* pointing at p
BigFile(p) ==
    EncDump(<<ParamsRec, TypeT,
              ObjectRec(Heap0, 0, bucketSize + 16, Zeros(bucketSize + 16)),
              ObjectRec(Heap0 + bucketSize + 16, TAddr, 16, Words(<<p, 0>>)),
              SegRec(tagData, 2 * 4096, <<Heap0 + bucketSize + 16>>),
              SegRec(tagBss, 3 * 4096, <<>>)>>)

\* object graphs for the dominator pass: three objects of 16, 32 and 64
\* bytes with two pointers each (type U), one global and one other root
GraphAddrs == <<Heap0, Heap0 + 16, Heap0 + 48>>
GraphSizes == <<16, 32, 64>>

GraphFile(p, g, r) ==
    EncDump(<<ParamsRec, TypeU>>
            \o [i \in 1..Len(GraphAddrs) |->
                  ObjectRec(GraphAddrs[i], UAddr, GraphSizes[i],
                            Words(<<p[2 * i - 1], p[2 * i]>>)
                              \o Zeros(GraphSizes[i] - 16))]
            \o <<<<tagOtherRoot, <<82>>, r>>,
                 SegRec(tagData, 2 * 4096, <<g>>),
                 SegRec(tagBss, 3 * 4096, <<>>)>>)

(***************************************************************************)
(* hview: prepare and dom.  ref1, postnum, state, idom and domsize are Go  *)
(* slices indexed by ObjId, so ref1[x] of the code is ref1[x + 1] here;    *)
(* the map ref2 is a sequence too, a missing key being the nil slice.      *)
(***************************************************************************)
\* the ObjIds 0 .. n-1 in order
ObjIds(n) == [i \in 1..n |-> i - 1]

\* prepare, "group objects by type": the histogram by full type id
byTypeOf(dd) ==
    [t \in 1..Len(dd.FTList) |->
        LET xs == SelectSeq(ObjIds(NumObjects(dd)),
                            LAMBDA x : dd.Objects[x + 1].Ft = t - 1)
        IN [bytes |-> Len(xs) * dd.FTList[t].Size, objects |-> xs]]

\* an index that keeps one referrer per target only
refsEdgeFirstOnly(r, x, e) ==
    IF r.ref1[e.To + 1] = ObjNil THEN [r EXCEPT !.ref1[e.To + 1] = x] ELSE r

\* an index that compares a new referrer with the first referrer only
refsEdgeNoLast(r, x, e) ==
    LET old == r.ref1[e.To + 1]
    IN IF old = ObjNil THEN [r EXCEPT !.ref1[e.To + 1] = x]
       ELSE IF x # old THEN [r EXCEPT !.ref2[e.To + 1] = Append(@, x)]
       ELSE r

\* the body of prepare's loop over the edges e of object x
refsEdge(r, x, e) ==
    LET old == r.ref1[e.To + 1]
        s == r.ref2[e.To + 1]
    IN IF old = ObjNil THEN [r EXCEPT !.ref1[e.To + 1] = x]
       ELSE IF x # old /\ (Len(s) = 0 \/ x # s[Len(s)])
            THEN [r EXCEPT !.ref2[e.To + 1] = Append(s, x)]
            ELSE r

RECURSIVE refsEdges(_, _, _, _)
refsEdges(r, x, es, k) ==
    IF k > Len(es) THEN r ELSE refsEdges(refsEdge(r, x, es[k]), x, es, k + 1)

\* prepare, "compute referrers", from object x on; s carries the Dump, the
\* scratch memory and the index built so far
RECURSIVE refsFrom(_, _, _)
refsFrom(s, fl, x) ==
    IF x >= NumObjects(s.d) THEN s
    ELSE LET with(e) ==
                 IF e.st # "ok"
                 THEN [s EXCEPT !.st = e.st, !.d = e.d, !.mem = e.mem]
                 ELSE refsFrom([st |-> "ok", d |-> e.d, mem |-> e.mem,
                                r |-> refsEdges(s.r, x, View(e.mem, e.e), 1)],
                               fl, x + 1)
         IN with(Edges(s.d, s.mem, fl, x))

prepareRefs(dd, mm, fl) ==
    refsFrom([st |-> "ok", d |-> dd, mem |-> mm,
              r |-> [ref1 |-> [i \in 1..NumObjects(dd) |-> ObjNil],
                     ref2 |-> [i \in 1..NumObjects(dd) |-> <<>>]]],
             fl, 0)

\* the edges dom ranges over for an other root (x.Edges): package read
\* keeps one edge per other root, E, which the linker sets when the root's
\* address is in an object
OtherRootEdges(dd, r) ==
    IF findObj(dd, r.toaddr).v # ObjNil THEN <<r.E>> ELSE <<>>

Targets(es) == {es[k].To : k \in 1..Len(es)}

\* dom, "make list of roots"
domRoots(dd) ==
    Targets(dd.Data[1].Edges) \cup Targets(dd.Bss[1].Edges)
      \cup UNION {Targets(dd.Frames[k].Edges) : k \in 1..Len(dd.Frames)}
      \cup UNION {Targets(OtherRootEdges(dd, dd.Otherroots[k])) :
                    k \in 1..Len(dd.Otherroots)}

\* a loop that pushes every target, seen or not
RECURSIVE pushChildrenAll(_, _, _)
pushChildrenAll(s, es, k) ==
    IF k > Len(es) THEN s
    ELSE pushChildrenAll([s EXCEPT !.state[es[k].To + 1] = 1,
                                   !.q = Append(@, es[k].To)],
                         es, k + 1)

\* for _, e := range d.Edges(y): push the targets not seen yet
RECURSIVE pushChildren(_, _, _)
pushChildren(s, es, k) ==
    IF k > Len(es) THEN s
    ELSE LET z == es[k].To IN
         pushChildren(IF s.state[z + 1] = 0
                      THEN [s EXCEPT !.state[z + 1] = 1, !.q = Append(@, z)]
                      ELSE s,
                      es, k + 1)

\* one round of  for len(q) > 0  in dom; s = [st, d, mem, state, q,
\* postorder, postnum]
postStep(s, fl) ==
    LET y == s.q[Len(s.q)] IN
    IF s.state[y + 1] = 2
    THEN [s EXCEPT !.state[y + 1] = 3,
                   !.q = SubSeq(@, 1, Len(@) - 1),
                   !.postnum[y + 1] = Len(s.postorder),
                   !.postorder = Append(@, y)]
    ELSE IF s.state[y + 1] # 1 THEN [s EXCEPT !.st = "fatal"]
    ELSE LET with(e) ==
                 IF e.st # "ok"
                 THEN [s EXCEPT !.st = e.st, !.d = e.d, !.mem = e.mem]
                 ELSE pushChildren([s EXCEPT !.state[y + 1] = 2, !.d = e.d,
                                             !.mem = e.mem],
                                   View(e.mem, e.e), 1)
         IN with(Edges(s.d, s.mem, fl, y))

\* a walk that moves the finger with the larger postorder number
RECURSIVE walkWrongFinger(_, _, _, _, _)
walkWrongFinger(idm, pn, a, b, fuel) ==
    IF a = b THEN [st |-> "ok", v |-> a]
    ELSE IF a = ObjNil \/ b = ObjNil THEN [st |-> "panic", v |-> a]
    ELSE IF fuel = 0 THEN [st |-> "hang", v |-> a]
    ELSE IF pn[a + 1] > pn[b + 1]
         THEN walkWrongFinger(idm, pn, idm[a + 1], b, fuel - 1)
         ELSE walkWrongFinger(idm, pn, a, idm[b + 1], fuel - 1)

\* for a != b { ... }: the walk of the two fingers.  postnum[-1] is an
\* index out of range; a walk that has not met after fuel steps has come
\* back to a pair it has been at, and never ends
RECURSIVE walk(_, _, _, _, _)
walk(idm, pn, a, b, fuel) ==
    IF a = b THEN [st |-> "ok", v |-> a]
    ELSE IF a = ObjNil \/ b = ObjNil THEN [st |-> "panic", v |-> a]
    ELSE IF fuel = 0 THEN [st |-> "hang", v |-> a]
    ELSE IF pn[a + 1] < pn[b + 1]
         THEN walk(idm, pn, idm[a + 1], b, fuel - 1)
         ELSE walk(idm, pn, a, idm[b + 1], fuel - 1)

\* for _, b := range redges { ... }, from the k-th incoming edge on
RECURSIVE intersect(_, _, _, _, _)
intersect(idm, pn, redges, k, a) ==
    IF k > Len(redges) THEN [st |-> "ok", v |-> a]
    ELSE LET b == redges[k] IN
         IF idm[b + 1] = ObjNil THEN intersect(idm, pn, redges, k + 1, a)
         ELSE IF a = ObjNil THEN intersect(idm, pn, redges, k + 1, b)
         ELSE LET with(w) == IF w.st # "ok" THEN w
                             ELSE intersect(idm, pn, redges, k + 1, w.v)
              IN with(walk(idm, pn, a, b, (Len(idm) + 1) * (Len(idm) + 1)))

\* a round that takes the first referrer that has an idom, without walking
idomOfFirst(idm, pn, r1, r2, rts, x) ==
    LET redges == IF r1[x + 1] # ObjNil THEN <<r1[x + 1]>> \o r2[x + 1]
                  ELSE <<>>
        has == {k \in 1..Len(redges) : idm[redges[k] + 1] # ObjNil}
    IN [st |-> "ok",
        v |-> IF x \in rts THEN Len(idm) - 1
              ELSE IF has = {} THEN ObjNil
              ELSE redges[CHOOSE k \in has : \A j \in has : k <= j]]

\* the new idom of x: one round of the loop over the postorder
idomOf(idm, pn, r1, r2, rts, x) ==
    LET redges == IF r1[x + 1] # ObjNil THEN <<r1[x + 1]>> \o r2[x + 1]
                  ELSE <<>>
        with(a) == IF a.st # "ok" THEN a
                   ELSE IF x \in rts THEN [st |-> "ok", v |-> Len(idm) - 1]
                   ELSE a
    IN with(intersect(idm, pn, redges, 1, ObjNil))

\* a size pass that does not hand the sizes up the dominator tree
domsizeFlat(dd, po, idm, k, ds) ==
    [st |-> "ok",
     v |-> [i \in 1..Len(ds) |->
              IF \E j \in 1..Len(po) : po[j] = i - 1 THEN Size(dd, i - 1)
              ELSE 0]]

\* for _, x := range postorder { domsize[x] += size; domsize[idom[x]] +=
\* domsize[x] }, from the k-th on; domsize[-1] is an index out of range
RECURSIVE domsizeLoop(_, _, _, _, _)
domsizeLoop(dd, po, idm, k, ds) ==
    IF k > Len(po) THEN [st |-> "ok", v |-> ds]
    ELSE LET x == po[k]
             d1 == [ds EXCEPT ![x + 1] = @ + Size(dd, x)]
         IN IF idm[x + 1] = ObjNil THEN [st |-> "panic", v |-> d1]
            ELSE domsizeLoop(dd, po, idm, k + 1,
                             [d1 EXCEPT ![idm[x + 1] + 1] = @ + d1[x + 1]])

(***************************************************************************)
(* The programs.  hview loads the dump, prepares its analyses and then     *)
(* serves queries; a plain reader (dumptodot, dumptohprof) loads the dump  *)
(* and queries it.                                                         *)
(***************************************************************************)
vars == <<file, client, d, mem, pc, ret, retObj, retKind, held, heldObj,
          heldKind, heldVal, first, nq, byType, ref1, ref2, domsize, roots,
          todo, postorder, postnum, state, q, idom, change, di, th, d0>>

queryVars == <<ret, retObj, retKind, held, heldObj, heldKind, heldVal,
               first, nq>>
indexVars == <<byType, ref1, ref2>>
domVars == <<roots, todo, postorder, postnum, state, q, idom, change, di>>

\* bounds: the requests hview serves, the queries a reader makes, the
\* pointers that are not nil in an object graph
MaxRequests == 1
MaxQueries == 3
MaxPtrs == 3

Handlers == {1, 2}
IdleHandler ==
    [pc |-> "idle", x |-> 0, b |-> NilSlice, e |-> NilSlice, k |-> 0,
     out |-> <<>>]

SpecFiles ==
    {ScenarioFile(k, s) : k \in {0, 4}, s \in BOOLEAN}
      \cup {LayoutFile(p1, p2, p3, g) :
              p1 \in PtrChoices, p2 \in PtrChoices, p3 \in PtrChoices,
              g \in {0, AddrB + 8}}
      \cup {RootsFile(g, s, tp, r, c, qf) :
              g \in {0, AddrA + 8, AddrC + 24}, s \in {0, AddrB, AddrB + 16},
              tp \in {0, TAddr, VAddr}, r \in {0, AddrC + 8},
              c \in {0, AddrA, AddrB + 8}, qf \in {0, AddrB + 8}}
      \cup {IfaceFile(tp, dp, it, ip) :
              tp \in {0, TAddr, VAddr, 9 * 256}, dp \in {0, Heap0 + 40},
              it \in {0, ItabP, ItabN, 8 * 256}, ip \in {0, Heap0 + 32}}
      \cup {BigFile(p) : p \in {Heap0 + 8, Heap0 + bucketSize + 8,
                                Heap0 + bucketSize + 16}}

GraphPtrs == {0} \cup {GraphAddrs[i] : i \in 1..Len(GraphAddrs)}
GraphFiles ==
    {GraphFile(p, gr[1], gr[2]) :
        p \in {s \in [1..(2 * Len(GraphAddrs)) -> GraphPtrs] :
                 Cardinality({i \in DOMAIN s : s[i] # 0}) <= MaxPtrs},
        gr \in {x \in GraphPtrs \X GraphPtrs : x[1] <= x[2]}}

QueryFiles ==
    {LayoutFile(p1, p2, p3, 0) :
        p1 \in {AddrB, AddrC + 8}, p2 \in {0, AddrA + 8},
        p3 \in {AddrA + 8, AddrC + 8}}

ConcFiles ==
    {LayoutFile(AddrB, p2, AddrC + 8, g) :
        p2 \in {0, AddrA + 8}, g \in {0, AddrB + 8}}

RelinkFiles ==
    {RootsFile(g, s, tp, r, c, qf) :
        g \in {0, AddrA + 8}, s \in {0, AddrB}, tp \in {0, TAddr, VAddr},
        r \in {0, AddrC + 8}, c \in {0, AddrA}, qf \in {0, AddrB + 8}}

InitWith(files, who) ==
    /\ file \in files
    /\ client = who
    /\ d = NewDump
    /\ mem = <<>>
    /\ pc = "start"
    /\ ret = NilSlice /\ retObj = ObjNil /\ retKind = "none"
    /\ held = NilSlice /\ heldObj = ObjNil /\ heldKind = "none"
    /\ heldVal = <<>>
    /\ first = <<>> /\ nq = 0
    /\ byType = <<>> /\ ref1 = <<>> /\ ref2 = <<>> /\ domsize = <<>>
    /\ roots = {} /\ todo = {}
    /\ postorder = <<>> /\ postnum = <<>> /\ state = <<>> /\ q = <<>>
    /\ idom = <<>> /\ change = FALSE /\ di = -1
    /\ th = [t \in Handlers |-> IdleHandler]
    /\ d0 = NewDump

Init == InitWith(SpecFiles, "hview")
InitDom == InitWith(GraphFiles, "hview")
InitQuery == InitWith(QueryFiles, "reader")
InitConc == InitWith(ConcFiles, "hview")
InitRelink == InitWith(RelinkFiles, "hview")

\* d = read.Read(args[0], "")
Load ==
    /\ pc = "start"
    /\ \E r \in {Read(file)} :
         /\ d' = r.d
         /\ pc' = IF r.st # "ok" THEN r.st
                  ELSE IF client = "hview" THEN "loaded" ELSE "serving"
         /\ first' = IF r.st = "ok"
                     THEN [i \in 1..NumObjects(r.d) |-> [at |-> 0, e |-> <<>>]]
                     ELSE <<>>
    /\ UNCHANGED <<file, client, mem, ret, retObj, retKind, held, heldObj,
                   heldKind, heldVal, nq, indexVars, domsize, domVars, th, d0>>

\* prepare, up to its call of dom
Prepare ==
    /\ pc = "loaded"
    /\ \E p \in {prepareRefs(d, mem, file)} :
         /\ byType' = byTypeOf(d)
         /\ d' = p.d
         /\ mem' = p.mem
         /\ ref1' = p.r.ref1
         /\ ref2' = p.r.ref2
         /\ pc' = IF p.st = "ok" THEN "dom" ELSE p.st
    /\ UNCHANGED <<file, client, queryVars, domsize, domVars, th, d0>>

\* dom: the roots, and the arrays of the postorder pass
DomRoots ==
    /\ pc = "dom"
    /\ roots' = domRoots(d)
    /\ todo' = domRoots(d)
    /\ postorder' = <<>>
    /\ postnum' = [i \in 1..(NumObjects(d) + 1) |-> 0]
    /\ state' = [i \in 1..NumObjects(d) |-> 0]
    /\ q' = <<>>
    /\ pc' = "post"
    /\ UNCHANGED <<file, client, d, mem, queryVars, indexVars, domsize, idom,
                   change, di, th, d0>>

\* for x := range roots: the next root, in whatever order the map gives
PostRoot ==
    /\ pc = "post"
    /\ q = <<>>
    /\ \E x \in todo :
         /\ todo' = todo \ {x}
         /\ IF state[x + 1] # 0
            THEN /\ pc' = IF state[x + 1] # 3 THEN "fatal" ELSE "post"
                 /\ UNCHANGED <<state, q>>
            ELSE /\ state' = [state EXCEPT ![x + 1] = 1]
                 /\ q' = <<x>>
                 /\ pc' = "post"
    /\ UNCHANGED <<file, client, d, mem, queryVars, indexVars, domsize, roots,
                   postorder, postnum, idom, change, di, th, d0>>

\* one round of  for len(q) > 0
PostStep ==
    /\ pc = "post"
    /\ q # <<>>
    /\ \E s \in {postStep([st |-> "ok", d |-> d, mem |-> mem, state |-> state,
                           q |-> q, postorder |-> postorder,
                           postnum |-> postnum], file)} :
          /\ d' = s.d
          /\ mem' = s.mem
          /\ state' = s.state
          /\ q' = s.q
          /\ postorder' = s.postorder
          /\ postnum' = s.postnum
          /\ pc' = IF s.st = "ok" THEN "post" ELSE s.st
    /\ UNCHANGED <<file, client, queryVars, indexVars, domsize, roots, todo,
                   idom, change, di, th, d0>>

\* the end of the postorder pass and the start of the fixed point
PostDone ==
    /\ pc = "post"
    /\ q = <<>>
    /\ todo = {}
    /\ postnum' = [postnum EXCEPT ![NumObjects(d) + 1] = NumObjects(d)]
    /\ idom' = [i \in 1..(NumObjects(d) + 1) |->
                  IF i = NumObjects(d) + 1 \/ (i - 1) \in roots
                  THEN NumObjects(d) ELSE ObjNil]
    /\ change' = TRUE
    /\ di' = -1
    /\ pc' = "idom"
    /\ UNCHANGED <<file, client, d, mem, queryVars, indexVars, domsize, roots,
                   todo, postorder, state, q, th, d0>>

\* for change { change = false; for i := len(postorder) - 1; ...
IdomPass ==
    /\ pc = "idom"
    /\ di = -1
    /\ change
    /\ change' = FALSE
    /\ di' = Len(postorder) - 1
    /\ UNCHANGED <<file, client, d, mem, pc, queryVars, indexVars, domsize,
                   roots, todo, postorder, postnum, state, q, idom, th, d0>>

\* one round of the loop over the postorder
IdomStep ==
    /\ pc = "idom"
    /\ di >= 0
    /\ \E x \in {postorder[di + 1]} :
       \E a \in {idomOf(idom, postnum, ref1, ref2, roots, x)} :
          IF a.st # "ok"
          THEN /\ pc' = a.st
               /\ UNCHANGED <<idom, change, di>>
          ELSE /\ idom' = [idom EXCEPT ![x + 1] = a.v]
               /\ change' = (change \/ a.v # idom[x + 1])
               /\ di' = di - 1
               /\ pc' = "idom"
    /\ UNCHANGED <<file, client, d, mem, queryVars, indexVars, domsize, roots,
                   todo, postorder, postnum, state, q, th, d0>>

\* the sizes, and the return of prepare: hview now serves
DomSize ==
    /\ pc = "idom"
    /\ di = -1
    /\ ~change
    /\ \E r \in {domsizeLoop(d, postorder, idom, 1,
                             [i \in 1..(NumObjects(d) + 1) |-> 0])} :
          /\ domsize' = r.v
          /\ pc' = IF r.st = "ok" THEN "serving" ELSE r.st
    /\ UNCHANGED <<file, client, d, mem, queryVars, indexVars, domVars, th, d0>>

\* how many queries the program makes
Budget == IF client = "hview" THEN MaxRequests ELSE MaxQueries

\* b := d.Contents(x), the caller keeping b
QueryContents ==
    /\ pc = "serving"
    /\ nq < Budget
    /\ \E x \in 0..(NumObjects(d) - 1) : \E c \in {Contents(d, mem, file, x)} :
         /\ d' = c.d
         /\ mem' = c.mem
         /\ pc' = IF c.st = "ok" THEN "serving" ELSE c.st
         /\ ret' = c.b
         /\ retObj' = x
    /\ retKind' = "Contents"
    /\ held' = ret
    /\ heldObj' = retObj
    /\ heldKind' = retKind
    /\ heldVal' = View(mem, ret)
    /\ nq' = nq + 1
    /\ UNCHANGED <<file, client, first, indexVars, domsize, domVars, th, d0>>

\* e := d.Edges(x), the caller keeping e
QueryEdges ==
    /\ pc = "serving"
    /\ nq < Budget
    /\ \E x \in 0..(NumObjects(d) - 1) : \E e \in {Edges(d, mem, file, x)} :
         /\ d' = e.d
         /\ mem' = e.mem
         /\ pc' = IF e.st = "ok" THEN "serving" ELSE e.st
         /\ ret' = e.e
         /\ retObj' = x
         /\ first' = IF e.st = "ok" /\ first[x + 1].at = 0
                     THEN [first EXCEPT ![x + 1] =
                             [at |-> nq + 1, e |-> View(e.mem, e.e)]]
                     ELSE first
    /\ retKind' = "Edges"
    /\ held' = ret
    /\ heldObj' = retObj
    /\ heldKind' = retKind
    /\ heldVal' = View(mem, ret)
    /\ nq' = nq + 1
    /\ UNCHANGED <<file, client, indexVars, domsize, domVars, th, d0>>

(***************************************************************************)
(* Two handlers of hview's HTTP server, each in its own goroutine, each    *)
(* calling d.Edges(x) for the object of its request and then rendering the *)
(* edges it got.  The steps are the reads and writes of the shared d.buf,  *)
(* d.edges and their arrays.                                               *)
(***************************************************************************)
\* x := d.Objects[i]; e := d.edges[:0]
HStart(t) ==
    /\ pc = "serving"
    /\ th[t].pc = "idle"
    /\ \E x \in 0..(NumObjects(d) - 1) :
         th' = [th EXCEPT ![t] = [@ EXCEPT !.pc = "buf", !.x = x,
                                   !.e = [arr |-> d.edges.arr, len |-> 0]]]
    /\ UNCHANGED <<file, client, d, mem, pc, queryVars, indexVars, domsize,
                   domVars, d0>>

\* Contents: b := d.buf; if cap(b) < size { b = make(...); d.buf = b };
\* b = b[:size]
HBuf(t) ==
    /\ pc = "serving"
    /\ th[t].pc = "buf"
    /\ LET size == Size(d, th[t].x)
           grow == Cap(mem, d.buf) < size
           mk == Make(mem, size, 0)
       IN /\ mem' = IF grow THEN mk.mem ELSE mem
          /\ d' = IF grow THEN [d EXCEPT !.buf = mk.s] ELSE d
          /\ th' = [th EXCEPT ![t] = [@ EXCEPT !.pc = "read",
                       !.b = IF grow THEN mk.s
                             ELSE [arr |-> d.buf.arr, len |-> size]]]
    /\ UNCHANGED <<file, client, pc, queryVars, indexVars, domsize, domVars, d0>>

\* Contents: d.r.ReadAt(b, x.offset); return b
HRead(t) ==
    /\ pc = "serving"
    /\ th[t].pc = "read"
    /\ LET b == th[t].b
           off == d.Objects[th[t].x + 1].offset
       IN /\ mem' = IF b.len = 0 THEN mem
                    ELSE [mem EXCEPT ![b.arr] =
                            [k \in 1..Len(@) |->
                               IF k <= Min(b.len, Len(file) - off)
                               THEN file[off + k] ELSE @[k]]]
          /\ pc' = IF b.len > 0 /\ off + b.len > Len(file) THEN "fatal" ELSE pc
    /\ th' = [th EXCEPT ![t] = [@ EXCEPT !.pc = "fields", !.k = 1]]
    /\ UNCHANGED <<file, client, d, queryVars, indexVars, domsize, domVars, d0>>

\* Edges: one round of  for _, f := range x.Ft.Fields
HField(t) ==
    /\ pc = "serving"
    /\ th[t].pc = "fields"
    /\ th[t].k <= Len(Ft(d, th[t].x).Fields)
    /\ \E x \in {fieldEdge(d, View(mem, th[t].b),
                           Ft(d, th[t].x).Fields[th[t].k])} :
       \E a \in {GoAppend(mem, th[t].e, x.e, ZeroEdge)} :
          /\ pc' = IF x.st = "ok" THEN pc ELSE x.st
          /\ mem' = IF x.st = "ok" /\ x.has THEN a.mem ELSE mem
          /\ th' = [th EXCEPT ![t] = [@ EXCEPT !.k = @ + 1,
                       !.e = IF x.st = "ok" /\ x.has THEN a.s ELSE @]]
    /\ UNCHANGED <<file, client, d, queryVars, indexVars, domsize, domVars, d0>>

\* Edges: d.edges = e; return e
HReturn(t) ==
    /\ pc = "serving"
    /\ th[t].pc = "fields"
    /\ th[t].k > Len(Ft(d, th[t].x).Fields)
    /\ d' = [d EXCEPT !.edges = th[t].e]
    /\ th' = [th EXCEPT ![t] = [@ EXCEPT !.pc = "render"]]
    /\ UNCHANGED <<file, client, mem, pc, queryVars, indexVars, domsize,
                   domVars, d0>>

\* the handler reads the edges it was given
HRender(t) ==
    /\ pc = "serving"
    /\ th[t].pc = "render"
    /\ th' = [th EXCEPT ![t] = [@ EXCEPT !.pc = "done",
                                 !.out = View(mem, th[t].e)]]
    /\ UNCHANGED <<file, client, d, mem, pc, queryVars, indexVars, domsize,
                   domVars, d0>>

Handle ==
    \E t \in Handlers :
        HStart(t) \/ HBuf(t) \/ HRead(t) \/ HField(t) \/ HReturn(t)
          \/ HRender(t)

\* link(d) on the Dump that Read has linked
Relink ==
    /\ pc = "loaded"
    /\ \E r \in {link(d)} :
         /\ d' = r.d
         /\ pc' = IF r.st = "ok" THEN "relinked" ELSE r.st
    /\ d0' = d
    /\ UNCHANGED <<file, client, mem, queryVars, indexVars, domsize, domVars, th>>

Analyse ==
    \/ Prepare
    \/ DomRoots
    \/ PostRoot
    \/ PostStep
    \/ PostDone
    \/ IdomPass
    \/ IdomStep
    \/ DomSize

\* hview over dumps of every layout, serving queries one at a time
Next == Load \/ Analyse \/ QueryContents \/ QueryEdges
Spec == Init /\ [][Next]_vars

\* hview over object graphs
NextDom == Load \/ Analyse
SpecDom == InitDom /\ [][NextDom]_vars

\* a reader making queries one after the other
NextQuery == Load \/ QueryContents \/ QueryEdges
SpecQuery == InitQuery /\ [][NextQuery]_vars

\* hview serving two requests at the same time
NextConc == Load \/ Analyse \/ Handle
SpecConc == InitConc /\ [][NextConc]_vars

\* the linker run a second time
NextRelink == Load \/ Relink
SpecRelink == InitRelink /\ [][NextRelink]_vars

(***************************************************************************)
(* What the properties speak of.                                           *)
(***************************************************************************)
Aborted == pc \in {"fatal", "panic", "hang"}
Linked == pc # "start" /\ ~Aborted
Objs == 0..(NumObjects(d) - 1)

\* the objects lie inside the heap and do not overlap
WellFormed ==
    \A i \in 1..NumObjects(d) :
        /\ d.HeapStart <= d.Objects[i].Addr
        /\ d.Objects[i].Addr + Size(d, i - 1) <= d.HeapEnd
        /\ i < NumObjects(d) =>
             d.Objects[i].Addr + Size(d, i - 1) <= d.Objects[i + 1].Addr

\* the bytes of object x in the file
ObjBytes(x) ==
    SubSeq(file, d.Objects[x + 1].offset + 1,
           d.Objects[x + 1].offset + Size(d, x))

\* what Edges(x) returns when it is called now
SoloEdges(x) ==
    LET with(e) == IF e.st = "ok" THEN View(e.mem, e.e) ELSE <<>>
    IN with(Edges(d, mem, file, x))

Returned == View(mem, ret)

\* edge e was made from the pointer value raw
EdgeOf(e, raw) ==
    /\ e.To \in Objs
    /\ e.ToOffset >= 0
    /\ e.ToOffset < Size(d, e.To)
    /\ findObj(d, raw) = [st |-> "ok", v |-> e.To]
    /\ e.ToOffset = raw - Addr(d, e.To)

\* the edges es were made from the pointers at their FromOffset in data
EdgesOf(es, data) ==
    \A k \in 1..Len(es) : EdgeOf(es[k], readPtrAt(d, data, es[k].FromOffset).v)

\* C1: after load, every address inside an object is found to be in that
\* object.  Stated for the dumps whose objects lie in the heap and do not
\* overlap, where "the object containing the address" is unique.
C1_FindObjContaining ==
    (pc = "loaded" /\ WellFormed) =>
        \A x \in Objs :
            \A a \in Addr(d, x)..(Addr(d, x) + Size(d, x) - 1) :
                findObj(d, a) = [st |-> "ok", v |-> x]

\* C2: every edge of Edges(x), and every edge the linker stored on a frame,
\* on a globals segment or on a queued finalizer, names an object of the
\* Dump, has an offset inside that object, and is what findObj makes of the
\* pointer that was read.
C2_EdgesValid ==
    Linked =>
        /\ \A x \in Objs : EdgesOf(SoloEdges(x), ObjBytes(x))
        /\ (retKind = "Edges" /\ pc = "serving") =>
               EdgesOf(Returned, ObjBytes(retObj))
        /\ \A k \in 1..Len(d.Frames) :
               EdgesOf(d.Frames[k].Edges, d.Frames[k].Data)
        /\ EdgesOf(d.Data[1].Edges, d.Data[1].Data)
        /\ EdgesOf(d.Bss[1].Edges, d.Bss[1].Data)
        /\ \A k \in 1..Len(d.QFinal) :
               \A j \in 1..Len(d.QFinal[k].Edges) :
                   \E a \in {d.QFinal[k].obj, d.QFinal[k].fn,
                             d.QFinal[k].fint, d.QFinal[k].ot} :
                       EdgeOf(d.QFinal[k].Edges[j], a)

\* an Edges query returned an edge to the inside of an object, and a frame,
\* the globals and a queued finalizer have edges
C2_Witness ==
    /\ pc = "serving"
    /\ retKind = "Edges"
    /\ \E k \in 1..Len(Returned) : Returned[k].ToOffset > 0
    /\ \E k \in 1..Len(d.Frames) : d.Frames[k].Edges # <<>>
    /\ d.Data[1].Edges # <<>>
    /\ \E k \in 1..Len(d.QFinal) : Len(d.QFinal[k].Edges) > 1

\* the object graph: the targets of the edges of x
Succ(x) == Targets(SoloEdges(x))

\* the objects reached from the set frontier without passing through block
RECURSIVE ReachFrom(_, _, _)
ReachFrom(seen, frontier, block) ==
    LET new == (frontier \ seen) \ {block} IN
    IF new = {} THEN seen
    ELSE ReachFrom(seen \cup new, UNION {Succ(y) : y \in new}, block)

Reachable == ReachFrom({}, roots, ObjNil)

\* the reachable objects that x dominates: those no path from a root
\* reaches without passing through x
Dominated(x) == Reachable \ ReachFrom({}, roots, x)

RECURSIVE SumSizes(_)
SumSizes(S) ==
    IF S = {} THEN 0
    ELSE LET y == CHOOSE y \in S : TRUE IN Size(d, y) + SumSizes(S \ {y})

\* C3: when dom has run, domsize[x] is the sum of the sizes of the reachable
\* objects that x dominates, domsize of the virtual start node is the sum
\* of the sizes of all reachable objects, a reachable object has at least
\* its own size and an unreachable one has 0.
C3_DomSize ==
    pc = "serving" =>
        /\ domsize[NumObjects(d) + 1] = SumSizes(Reachable)
        /\ \A x \in Objs :
              /\ domsize[x + 1] = SumSizes(Dominated(x))
              /\ x \in Reachable => domsize[x + 1] >= Size(d, x)
              /\ x \notin Reachable => domsize[x + 1] = 0

\* dom has run on a graph where an object retains another one, an object
\* has two referrers and an object is unreachable
C3_Witness ==
    /\ pc = "serving"
    /\ \E x \in Objs : domsize[x + 1] > Size(d, x)
    /\ \E x \in Objs : x \in Reachable /\ ref2[x + 1] # <<>>
    /\ \E x \in Objs : x \notin Reachable

Prepared == pc \in {"dom", "post", "idom", "serving"}

InSeq(x, s) == \E k \in 1..Len(s) : s[k] = x

\* C4: once the referrer index is built, every object x with an edge to t is
\* ref1[t] or is in ref2[t], and ref2[t] is empty unless ref1[t] is set.
C4_Referrers ==
    Prepared =>
        /\ \A x \in Objs : \A t \in Succ(x) :
               ref1[t + 1] = x \/ InSeq(x, ref2[t + 1])
        /\ \A t \in Objs : ref2[t + 1] # <<>> => ref1[t + 1] # ObjNil

\* the index is built and some object has more than one referrer
C4_Witness ==
    /\ Prepared
    /\ \E t \in Objs : ref2[t + 1] # <<>> /\ ref1[t + 1] # ObjNil

\* C5: a handler that runs at the same time as another one gets the edges
\* of its own object, as if it ran alone.
C5_HandlersIndependent ==
    \A t \in Handlers : th[t].pc = "done" => th[t].out = SoloEdges(th[t].x)

\* C6: whatever was asked in between, Edges(x) returns what the first
\* Edges(x) returned.
C6_EdgesRepeatable ==
    (pc = "serving" /\ retKind = "Edges") => Returned = first[retObj + 1].e

\* the third query repeats the first one, Edges(x) for an x with edges, after
\* an Edges query about another object
C6_Witness ==
    /\ pc = "serving"
    /\ nq = 3
    /\ retKind = "Edges"
    /\ first[retObj + 1].at = 1
    /\ first[retObj + 1].e # <<>>
    /\ heldKind = "Edges"
    /\ heldObj # retObj
    /\ Returned = first[retObj + 1].e

\* the last query was about another object than the one before it
OtherObject == pc = "serving" /\ nq >= 2 /\ heldObj # retObj

\* C7 as the specification states it: a query about another object leaves
\* the edges and the bytes returned before as they were.
C7_HeldUnchanged == OtherObject => View(mem, held) = heldVal

\* C7, amended: the slices returned are views of the Dump's scratch buffers,
\* and the next query writes its own result over them.  After Contents(y) or
\* Edges(y), the bytes returned before by Contents(x) hold the bytes of y in
\* their first min(size(x), size(y)) places, unless y needed a larger
\* buffer, which leaves them as they were; after Edges(y), the edges returned
\* before by Edges(x) hold the edges of y in their first places, as many as
\* y has; Contents(y) leaves them as they were.
C7_HeldOverwritten ==
    OtherObject =>
        LET now == View(mem, held)
            bytes == ObjBytes(retObj)
            edges == SoloEdges(retObj)
        IN /\ Len(now) = Len(heldVal)
           /\ heldKind = "Contents" =>
                \A k \in 1..Len(now) :
                    now[k] = IF held.arr = d.buf.arr /\ k <= Len(bytes)
                             THEN bytes[k] ELSE heldVal[k]
           /\ heldKind = "Edges" =>
                \A k \in 1..Len(now) :
                    now[k] = IF retKind = "Edges" /\ k <= Len(edges)
                             THEN edges[k] ELSE heldVal[k]

\* edges returned by Edges(x) were overwritten by Edges(y)
C7_Witness ==
    /\ OtherObject
    /\ heldKind = "Edges"
    /\ retKind = "Edges"
    /\ View(mem, held) # heldVal

\* C8: the edges Edges(x) returns are in ascending order of FromOffset.
C8_EdgesAscending ==
    (pc = "serving" /\ retKind = "Edges") =>
        \A j \in 1..Len(Returned) : \A k \in 1..Len(Returned) :
            j < k => Returned[j].FromOffset <= Returned[k].FromOffset

\* C9: the minimal dump of the end-to-end scenario loads, has two objects,
\* the one edge of object 0 goes to object 1 at offset k, and ref1[1] is 0.
C9_Scenario ==
    \A k \in {0, 4} :
        file = ScenarioFile(k, FALSE) =>
            /\ ~Aborted
            /\ Linked => NumObjects(d) = 2
            /\ Linked =>
                 /\ Len(SoloEdges(0)) = 1
                 /\ SoloEdges(0)[1].To = 1
                 /\ SoloEdges(0)[1].ToOffset = k
            /\ Prepared => ref1[2] = 0

\* the edge lists the linker appends to, emptied
NoEdges(dd) ==
    [dd EXCEPT !.Frames = [k \in 1..Len(@) |-> [@[k] EXCEPT !.Edges = <<>>]],
               !.Data = [k \in 1..Len(@) |-> [@[k] EXCEPT !.Edges = <<>>]],
               !.Bss = [k \in 1..Len(@) |-> [@[k] EXCEPT !.Edges = <<>>]],
               !.QFinal = [k \in 1..Len(@) |-> [@[k] EXCEPT !.Edges = <<>>]]]

\* C10 as the specification states it: a second run of the linker changes
\* nothing.
C10_Idempotent == pc = "relinked" => d = d0

\* C10, amended: a second run of the linker appends the edges of every
\* frame, of both globals segments and of every queued finalizer once more,
\* so that each of these lists becomes itself twice over; it changes nothing
\* else: parents, owning goroutines, bottoms of stacks, contexts, the edges
\* of the other roots, the order of the objects and the index stay.
C10_RelinkAppends ==
    pc = "relinked" =>
        /\ NoEdges(d) = NoEdges(d0)
        /\ \A k \in 1..Len(d.Frames) :
               d.Frames[k].Edges = d0.Frames[k].Edges \o d0.Frames[k].Edges
        /\ d.Data[1].Edges = d0.Data[1].Edges \o d0.Data[1].Edges
        /\ d.Bss[1].Edges = d0.Bss[1].Edges \o d0.Bss[1].Edges
        /\ \A k \in 1..Len(d.QFinal) :
               d.QFinal[k].Edges = d0.QFinal[k].Edges \o d0.QFinal[k].Edges

\* the linker has run twice on a Dump with edges on a frame, on the globals
\* and on a queued finalizer, with a parent frame and a resolved context
C10_Witness ==
    /\ pc = "relinked"
    /\ \E k \in 1..Len(d0.Frames) :
           d0.Frames[k].Edges # <<>> /\ d0.Frames[k].Parent # 0
    /\ d0.Data[1].Edges # <<>>
    /\ \E k \in 1..Len(d0.QFinal) : Len(d0.QFinal[k].Edges) > 1
    /\ \E k \in 1..Len(d0.Goroutines) :
           d0.Goroutines[k].Bos # 0 /\ d0.Goroutines[k].ctxtaddr # 0

(***************************************************************************)
(* The sorted object list.                                                 *)
(***************************************************************************)
\* C11: after a successful load the objects, in their sorted order, have
\* distinct addresses and no object reaches into the next one.
C11_NoOverlap ==
    Linked =>
        \A i \in 1..(NumObjects(d) - 1) :
            /\ d.Objects[i].Addr < d.Objects[i + 1].Addr
            /\ d.Objects[i].Addr + Size(d, i - 1) <= d.Objects[i + 1].Addr

(***************************************************************************)
(* The fields of the full types.                                           *)
(***************************************************************************)
\* the bytes a field of the given kind takes (getFields advances by them)
FieldWidth(ptrSize, kind) ==
    CASE kind = FieldKindPtr -> ptrSize
      [] kind \in {FieldKindString, FieldKindIface, FieldKindEface} ->
           2 * ptrSize
      [] kind = FieldKindSlice -> 3 * ptrSize
      [] kind = FieldKindUInt32 -> 4
      [] kind \in {FieldKindUInt64, FieldKindBytes8} -> 8
      [] kind = FieldKindBytes16 -> 16
      [] OTHER -> 1

\* C13: after load, the field offsets of every full type are strictly
\* increasing and its last field ends within the full type's size.
C13_FieldsOrdered ==
    Linked =>
        \A i \in 1..Len(d.FTList) :
            LET fs == d.FTList[i].Fields IN
            /\ \A k \in 1..(Len(fs) - 1) : fs[k].Offset < fs[k + 1].Offset
            /\ fs # <<>> =>
                 fs[Len(fs)].Offset + FieldWidth(d.PtrSize, fs[Len(fs)].Kind)
                     <= d.FTList[i].Size

(***************************************************************************)
(* The referrer index.                                                     *)
(***************************************************************************)
\* the referrers of t as the index lists them: ref1[t], then ref2[t]
Referrers(t) ==
    (IF ref1[t + 1] = ObjNil THEN <<>> ELSE <<ref1[t + 1]>>) \o ref2[t + 1]

\* C15: once the referrer index is built, no object is listed twice among
\* the referrers of a target, even when it has several edges to the target.
C15_ReferrersDistinct ==
    Prepared =>
        \A t \in Objs :
            \A i, j \in 1..Len(Referrers(t)) :
                i < j => Referrers(t)[i] # Referrers(t)[j]

\* the index is built, and an object that is not the first referrer of a
\* target has two edges to it
C15_Witness ==
    /\ Prepared
    /\ \E t \in Objs : \E k \in 1..Len(ref2[t + 1]) :
         LET es == SoloEdges(ref2[t + 1][k])
         IN Cardinality({n \in 1..Len(es) : es[n].To = t}) >= 2

(***************************************************************************)
(* Dumps that bend the format's rules: the first line, the place of the    *)
(* Params record, objects that share bytes or leave the heap, a repeated   *)
(* Type record, a type that lives in the heap.                             *)
(***************************************************************************)
\* first lines: as the runtime writes it; ended by "\r\n"; with a blank at
\* its end; cut short; of another version; after an empty line; not ended
FirstLines ==
    {HeaderLine \o <<10>>, HeaderLine \o <<13, 10>>,
     HeaderLine \o <<32, 10>>, SubSeq(HeaderLine, 1, 14) \o <<10>>,
     [HeaderLine EXCEPT ![5] = 52] \o <<10>>,
     <<10>> \o HeaderLine \o <<10>>, HeaderLine}

\* type H: a type made at run time, 8 bytes into the object at Heap0 + 768;
\* its interface data word is not a pointer
HAddr == Heap0 + 3 * bucketSize + 8
TypeH == <<tagType, HAddr, 8, <<72>>, 0, <<>> >>

\* a second record for the address of type T, all else different
TypeT2 == <<tagType, TAddr, 32, <<88>>, 1, << <<FieldKindPtr, 8>> >> >>

\* the records: type T, a data segment that is one empty interface (type
\* word tw, data word dw), a T object, a channel of T, types E, V and H,
\* a second T object, an object of type ts[1] and size ts[2] at a2, the
\* second record for T's address if dup, an array of T, an object scanned
\* conservatively, an object of type E holding tw and dw, the bss segment;
\* the Params record comes after the first pp of them.  h is the first line.
DecodeFile(h, pp, a2, ts, dup, tw, dw) ==
    LET recs ==
            <<TypeT,
              <<tagData, 2 * 4096, Words(<<tw, dw>>),
                << <<FieldKindEface, 0>> >> >>,
              ObjectRec(Heap0, TAddr, 16, Words(<<Heap0 + 3 * bucketSize, 0>>)),
              <<tagObject, Heap0 + 4 * bucketSize, TAddr, TypeKindChan, 128,
                Zeros(128)>>,
              TypeE, TypeV, TypeH,
              ObjectRec(Heap0 + 3 * bucketSize, TAddr, 16, Zeros(16)),
              ObjectRec(a2, ts[1], ts[2], Zeros(ts[2]))>>
            \o (IF dup THEN <<TypeT2>> ELSE <<>>)
            \o <<<<tagObject, Heap0 + 5 * bucketSize, TAddr, TypeKindArray, 32,
                   Zeros(32)>>,
                 <<tagObject, Heap0 + 6 * bucketSize, 0, TypeKindConservative,
                   16, Words(<<Heap0, 0>>)>>,
                 ObjectRec(Heap0 + 7 * bucketSize, EAddr, 16, Words(<<tw, dw>>)),
                 SegRec(tagBss, 3 * 4096, <<>>)>>
    IN h \o EncRecords(SubSeq(recs, 1, pp) \o <<ParamsRec>>
                         \o SubSeq(recs, pp + 1, Len(recs)))
         \o <<tagEOF>>

\* where the second object may lie: on the first one, halfway into it,
\* right after it, in bucket 2 (none starts in bucket 1), across the end of
\* the heap, just beyond the heap, below the heap
LoadFiles ==
    {DecodeFile(h, 0, Heap0 + 16, <<0, 16>>, FALSE, 0, 0) : h \in FirstLines}
      \cup {DecodeFile(HeaderLine \o <<10>>, pp, a2, ts, dup, HAddr, Heap0) :
              pp \in {0, 3, 4}, dup \in BOOLEAN,
              a2 \in {Heap0, Heap0 + 8, Heap0 + 16,
                      Heap0 + 2 * bucketSize + 8, Heap0 + HeapSize - 8,
                      Heap0 + HeapSize, Heap0 - 16},
              ts \in {<<TAddr, 16>>, <<0, 16>>, <<TAddr, 32>>}}
      \cup {DecodeFile(HeaderLine \o <<10>>, pp, Heap0 + 16, <<0, 16>>, FALSE,
                       tw, dw) :
              pp \in {0, 1, 2}, tw \in {0, TAddr, UAddr, VAddr, HAddr},
              dw \in {0, Heap0}}

\* a heap of two buckets and 64 bytes more: a T object at its start holding
\* 0, a typeless object in bucket 1, one in the last 64 bytes if last, and a
\* global pointer p
OddEnd == Heap0 + 2 * bucketSize + 64

OddHeapFile(p, last) ==
    EncDump(<<<<tagParams, 0, 8, 96, Heap0, OddEnd, 54, <<>>, 1>>,
              TypeT,
              ObjectRec(Heap0, TAddr, 16, Zeros(16)),
              ObjectRec(Heap0 + bucketSize + 8, 0, 16, Zeros(16))>>
            \o (IF last
                THEN <<ObjectRec(Heap0 + 2 * bucketSize, 0, 16, Zeros(16))>>
                ELSE <<>>)
            \o <<SegRec(tagData, 2 * 4096, <<p>>),
                 SegRec(tagBss, 3 * 4096, <<>>)>>)

OddHeapFiles ==
    {OddHeapFile(p, last) :
        p \in {Heap0 - 1, Heap0, Heap0 + 15, Heap0 + 16, Heap0 + bucketSize,
               Heap0 + bucketSize + 8, Heap0 + 2 * bucketSize,
               OddEnd - 1, OddEnd},
        last \in BOOLEAN}

\* an array of size bytes over the type at ta, after a T object
ArrayFile(ta, size) ==
    EncDump(<<ParamsRec, TypeT, TypeU, TypeV,
              ObjectRec(Heap0, TAddr, 16, Zeros(16)),
              <<tagObject, Heap0 + bucketSize, ta, TypeKindArray, size,
                Zeros(size)>>,
              SegRec(tagData, 2 * 4096, <<>>),
              SegRec(tagBss, 3 * 4096, <<>>)>>)

ArrayFiles ==
    {ArrayFile(ta, size) : ta \in {TAddr, UAddr, VAddr},
                           size \in {0, 8, 16, 24, 32}}

InitLoad == InitWith(LoadFiles \cup OddHeapFiles \cup ArrayFiles, "reader")
SpecLoad == InitLoad /\ [][Load]_vars

\* the records of the file as written, each with its tag first, up to the
\* EOF tag or the first one that cannot be read; an object record ends with
\* the place of its bytes in the file, as the reader counts it
RECURSIVE recordsFrom(_, _, _)
recordsFrom(fl, r, acc) ==
    LET body(kind, x) ==
            IF x.st # "ok" THEN acc
            ELSE IF kind = tagObject
                 THEN recordsFrom(fl, Skip(fl, x.r, x.v[4]),
                                  Append(acc, <<kind>> \o x.v \o <<x.r.cnt>>))
                 ELSE recordsFrom(fl, x.r, Append(acc, <<kind>> \o x.v))
        with(kind) ==
            IF kind.st # "ok" \/ kind.v \notin 1..15 THEN acc
            ELSE body(kind.v,
                      readItems(fl, kind.r, RecordFormat(kind.v), <<>>))
    IN with(readUint64(fl, r))

Records ==
    LET with(hdr) == IF ~hdr.ok THEN <<>> ELSE recordsFrom(file, hdr.r, <<>>)
    IN with(ReadLine(file, NewReader))

\* C12: after a successful load every object lies inside the heap, from its
\* first byte to its last.
C12_InHeap ==
    Linked =>
        \A x \in Objs :
            /\ d.HeapStart <= Addr(d, x)
            /\ Addr(d, x) + Size(d, x) <= d.HeapEnd

(***************************************************************************)
(* The catalog of full types.                                              *)
(***************************************************************************)
\* the (type address, kind, size) that the file gives for object x
Triple(recs, x) ==
    LET rec == CHOOSE r \in {recs[i] : i \in 1..Len(recs)} :
                   r[1] = tagObject /\ r[6] = d.Objects[x + 1].offset
    IN <<rec[3], rec[4], rec[5]>>

\* C14: after load two objects have the same full type exactly when the
\* file gives them the same type address, kind and size; there is one full
\* type per such triple, and the full types are numbered 0, 1, 2, ... in
\* the order of the list.
C14_FullTypeDedup ==
    Linked =>
        LET recs == Records IN
        /\ \A i \in 1..Len(d.FTList) : d.FTList[i].Id = i - 1
        /\ \A x, y \in Objs :
             (d.Objects[x + 1].Ft = d.Objects[y + 1].Ft)
                 <=> (Triple(recs, x) = Triple(recs, y))
        /\ \A x \in Objs :
             /\ Ft(d, x).Kind = Triple(recs, x)[2]
             /\ Ft(d, x).Size = Triple(recs, x)[3]
        /\ Len(d.FTList) = Cardinality({Triple(recs, x) : x \in Objs})

\* a loaded dump where two objects share a full type and two others differ
\* in the kind only
C14_Witness ==
    /\ Linked
    /\ \E x, y \in Objs :
         /\ x # y
         /\ d.Objects[x + 1].Ft = d.Objects[y + 1].Ft
    /\ \E x, y \in Objs :
         /\ Ft(d, x).Typ = Ft(d, y).Typ
         /\ Ft(d, x).Size = Ft(d, y).Size
         /\ Ft(d, x).Kind # Ft(d, y).Kind

(***************************************************************************)
(* The catalog of types.                                                   *)
(***************************************************************************)
\* the kinds and offsets of a field list
Layout(fs) == [k \in 1..Len(fs) |-> <<fs[k].Kind, fs[k].Offset>>]

\* the first Type record of recs with address a
FirstType(recs, a) ==
    recs[CHOOSE i \in 1..Len(recs) :
            /\ recs[i][1] = tagType /\ recs[i][2] = a
            /\ \A j \in 1..(i - 1) : ~(recs[j][1] = tagType /\ recs[j][2] = a)]

\* C17: after load every address that Type records carry is in the type
\* list once and in the address map, and the type kept for it has the
\* size, name, eface-ptr bit and fields of the first record with that
\* address.
C17_FirstTypeKept ==
    Linked =>
        LET recs == Records IN
        \A i \in 1..Len(recs) :
            recs[i][1] = tagType =>
                LET a == recs[i][2]
                    rec == FirstType(recs, a)
                IN /\ Cardinality({k \in 1..Len(d.Types) :
                                      d.Types[k].Addr = a}) = 1
                   /\ a \in DOMAIN d.TypeMap
                   /\ d.Types[d.TypeMap[a]].Addr = a
                   /\ d.Types[d.TypeMap[a]].Size = rec[3]
                   /\ d.Types[d.TypeMap[a]].Name = rec[4]
                   /\ d.Types[d.TypeMap[a]].efaceptr = rec[5]
                   /\ Layout(d.Types[d.TypeMap[a]].Fields) = Layout(rec[6])

\* a loaded dump with two Type records of one address that differ in size,
\* name, eface-ptr bit and fields
C17_Witness ==
    /\ Linked
    /\ \E i, j \in 1..Len(Records) :
         /\ i < j
         /\ Records[i][1] = tagType /\ Records[j][1] = tagType
         /\ Records[i][2] = Records[j][2]
         /\ Records[i][3] # Records[j][3]
         /\ Records[i][4] # Records[j][4]
         /\ Records[i][5] # Records[j][5]
         /\ Layout(Records[i][6]) # Layout(Records[j][6])

(***************************************************************************)
(* The object index.                                                       *)
(***************************************************************************)
\* the objects that start in bucket b, and those that start in it or later
StartIn(b) ==
    {x \in Objs : /\ d.HeapStart + bucketSize * b <= Addr(d, x)
                  /\ Addr(d, x) < d.HeapStart + bucketSize * (b + 1)}
StartFrom(b) == {x \in Objs : d.HeapStart + bucketSize * b <= Addr(d, x)}

\* the least of the object ids xs, the number of objects if there is none
FirstOf(xs) ==
    IF xs = {} THEN NumObjects(d) ELSE CHOOSE x \in xs : \A y \in xs : x <= y

\* C20 as stated: for every bucket b, idx[b] is the first object that
\* starts in bucket b or after it, the object count if there is none.
C20_IndexInOrAfter ==
    Linked => \A b \in 0..(Len(d.idx) - 1) : d.idx[b + 1] = FirstOf(StartFrom(b))

\* C20: after load the index has one entry for each 256 bytes of the heap,
\* and for every bucket b, idx[b] is the first object that starts in bucket
\* b, the object count if no object starts in it.
C20_IndexInBucket ==
    Linked =>
        /\ Len(d.idx) = (d.HeapEnd - d.HeapStart) \div bucketSize
        /\ \A b \in 0..(Len(d.idx) - 1) : d.idx[b + 1] = FirstOf(StartIn(b))

\* a loaded dump with a bucket where two objects start and a bucket where
\* none starts although an object starts in a later one
C20_Witness ==
    /\ Linked
    /\ \E b \in 0..(Len(d.idx) - 1) : Cardinality(StartIn(b)) >= 2
    /\ \E b \in 0..(Len(d.idx) - 1) : StartIn(b) = {} /\ StartFrom(b) # {}

(***************************************************************************)
(* The first line.                                                         *)
(***************************************************************************)
\* C19: a load of a file that does not begin with "go1.3 heap dump" and one
\* newline byte right after it ends in log.Fatal.
C19_HeaderExact ==
    (pc # "start" /\ SubSeq(file, 1, Len(HeaderLine) + 1) # HeaderLine \o <<10>>)
        => pc = "fatal"

(***************************************************************************)
(* Empty interfaces whose data word is not a pointer.                      *)
(***************************************************************************)
\* field f of data is an empty interface whose type word names a type with
\* efaceptr false
ScalarEface(f, data) ==
    /\ f.Kind = FieldKindEface
    /\ LET tp == readPtrAt(d, data, f.Offset).v
       IN tp \in DOMAIN d.TypeMap /\ ~d.Types[d.TypeMap[tp]].efaceptr

\* none of the edges es comes from the two words of field f
NoEdgeOf(es, f) ==
    \A k \in 1..Len(es) :
        es[k].FromOffset \notin {f.Offset, f.Offset + d.PtrSize}

\* the edges made for the fields of data hold none for such an interface
EfaceQuiet(fields, data, es) ==
    \A k \in 1..Len(fields) :
        ScalarEface(fields[k], data) => NoEdgeOf(es, fields[k])

\* C16: after load, an empty interface whose type has efaceptr false gives
\* no edge, whatever its data word holds: not among the edges of an
\* object, nor among those of the data segment, the bss segment or a frame.
C16_ScalarEfaceNoEdge ==
    Linked =>
        /\ \A x \in Objs :
             EfaceQuiet(Ft(d, x).Fields, ObjBytes(x), SoloEdges(x))
        /\ \A k \in 1..Len(d.Data) :
             EfaceQuiet(d.Data[k].Fields, d.Data[k].Data, d.Data[k].Edges)
        /\ \A k \in 1..Len(d.Bss) :
             EfaceQuiet(d.Bss[k].Fields, d.Bss[k].Data, d.Bss[k].Edges)
        /\ \A k \in 1..Len(d.Frames) :
             EfaceQuiet(d.Frames[k].Fields, d.Frames[k].Data,
                        d.Frames[k].Edges)

(***************************************************************************)
(* The place of the Params record.                                         *)
(***************************************************************************)
\* no Params record with a channel header size stands before record i
NoParamsBefore(recs, i) ==
    \A j \in 1..(i - 1) : ~(recs[j][1] = tagParams /\ recs[j][4] # 0)

\* a channel object stands before the Params record
ChanBeforeParams(recs) ==
    \E i \in 1..Len(recs) :
        /\ recs[i][1] = tagObject /\ recs[i][4] = TypeKindChan
        /\ NoParamsBefore(recs, i)

\* a record with pointers to decode stands before the Params record: a
\* segment with fields, or an object of a type
PointersBeforeParams(recs) ==
    \E i \in 1..Len(recs) :
        /\ \/ recs[i][1] \in {tagData, tagBss} /\ recs[i][4] # <<>>
           \/ recs[i][1] = tagObject /\ recs[i][3] # 0
        /\ NoParamsBefore(recs, i)

\* C18 as stated: the load ends in log.Fatal whenever a channel object or a
\* record with pointers stands before the Params record.
C18_ParamsFirst ==
    (pc # "start" /\ (ChanBeforeParams(Records) \/ PointersBeforeParams(Records)))
        => pc = "fatal"

\* C18: the load ends in log.Fatal when a channel object stands before the
\* Params record.  A record with pointers may stand before it: where the
\* load succeeds, the edges of the data segment and of every object come
\* from the pointers as the Params record says to read them.
C18_ChanNeedsParams ==
    LET recs == Records IN
    /\ (pc # "start" /\ ChanBeforeParams(recs)) => pc = "fatal"
    /\ (Linked /\ PointersBeforeParams(recs)) =>
         /\ d.PtrSize = 8 /\ d.Order = LittleEndian
         /\ EdgesOf(d.Data[1].Edges, d.Data[1].Data)
         /\ \A x \in Objs : EdgesOf(SoloEdges(x), ObjBytes(x))

\* a load that ended in log.Fatal on a file with the right first line, a
\* channel object standing before the Params record
C18_Witness ==
    /\ pc = "fatal"
    /\ SubSeq(file, 1, Len(HeaderLine) + 1) = HeaderLine \o <<10>>
    /\ ChanBeforeParams(Records)

(***************************************************************************)
(* The dominator pass.                                                     *)
(***************************************************************************)
\* the fixed point is reached: the loop  for change  has ended
DomDone == pc = "serving" \/ (pc = "idom" /\ di = -1 /\ ~change)

\* the objects other than x that every path from a root to x passes
StrictDoms(x) == {y \in Objs \ {x} : x \in Dominated(y)}

\* the immediate dominator of a reachable object x: the strict dominator
\* that all the others dominate, the virtual start node if there is none
TrueIdom(x) ==
    IF StrictDoms(x) = {} THEN NumObjects(d)
    ELSE CHOOSE y \in StrictDoms(x) :
             \A z \in StrictDoms(x) \ {y} : y \in Dominated(z)

\* C21: when the fixed point is reached, idom[x] of every reachable object
\* is its immediate dominator in the graph under the virtual start node,
\* and idom of a root is the virtual start node.
C21_IdomTrue ==
    DomDone =>
        /\ \A x \in Reachable : idom[x + 1] = TrueIdom(x)
        /\ \A x \in roots : idom[x + 1] = NumObjects(d)

\* the fixed point is reached on a graph with a cycle under the roots and
\* an object with two referrers whose immediate dominator is an object
C21_Witness ==
    /\ DomDone
    /\ \E x, y \in Reachable : x # y /\ x \in Succ(y) /\ y \in Succ(x)
    /\ \E x \in Reachable : ref2[x + 1] # <<>> /\ idom[x + 1] \in Objs

\* idom leads upwards: the idom of an object that has one comes later in
\* the postorder than the object and has an idom itself
WalkUp ==
    \A x \in Objs :
        idom[x + 1] # ObjNil =>
            /\ postnum[idom[x + 1] + 1] > postnum[x + 1]
            /\ idom[idom[x + 1] + 1] # ObjNil

\* a round of the fixed point that changes idom[x] gives x an idom, and one
\* that comes later in the postorder than the idom x had
Rise ==
    (pc = "idom" /\ pc' = "idom") =>
        \A x \in Objs :
            idom'[x + 1] # idom[x + 1] =>
                /\ idom'[x + 1] # ObjNil
                /\ idom[x + 1] # ObjNil =>
                     postnum[idom'[x + 1] + 1] > postnum[idom[x + 1] + 1]

\* C22: throughout the fixed point idom leads upwards in the postorder and
\* never to Nil, so every step of a walk moves a finger to a larger
\* postorder number and no walk reads idom of Nil or runs on; and every
\* change of idom[x] moves it up in the postorder, so the rounds that
\* change something are at most as many as there are objects times
\* postorder numbers, and the loop ends.
C22_Terminates ==
    /\ []((pc = "idom" => WalkUp) /\ pc \notin {"hang", "panic"})
    /\ [][Rise]_vars

\* in the fixed point, an object with two referrers that have an idom, and
\* whose own idom is neither of them: both fingers of the walk have moved
C22_Witness ==
    /\ pc = "idom"
    /\ \E x \in Objs :
         /\ ref2[x + 1] # <<>>
         /\ idom[ref1[x + 1] + 1] # ObjNil
         /\ idom[ref2[x + 1][1] + 1] # ObjNil
         /\ idom[x + 1] # ObjNil
         /\ x \notin roots
         /\ ~InSeq(idom[x + 1], <<ref1[x + 1]>> \o ref2[x + 1])

\* the postorder pass is over
PostOver == pc \in {"idom", "serving"}

\* in a round of the postorder pass, a state that changes goes one up
Advance ==
    (pc = "post" /\ pc' = "post") =>
        \A x \in Objs : state'[x + 1] # state[x + 1] =>
                            state'[x + 1] = state[x + 1] + 1

\* the work stack holds objects in state 1 or 2, each once, and they are
\* all the objects in these states
StackOK ==
    pc = "post" =>
        /\ \A k \in 1..Len(q) : state[q[k] + 1] \in {1, 2}
        /\ \A j, k \in 1..Len(q) : j # k => q[j] # q[k]
        /\ \A x \in Objs : state[x + 1] \in {1, 2} => InSeq(x, q)

\* C23: the postorder pass never ends in log.Fatal("bad state"); the work
\* stack holds only objects in state 1 or 2; a state only goes from 0 to 1
\* to 2 to 3; and when the pass is over, the postorder holds every object
\* reachable from a root once and no other object.
C23_Postorder ==
    /\ [](/\ pc # "fatal"
          /\ StackOK
          /\ PostOver =>
               /\ {postorder[k] : k \in 1..Len(postorder)} = Reachable
               /\ Len(postorder) = Cardinality(Reachable)
               /\ \A x \in Objs :
                    state[x + 1] = IF x \in Reachable THEN 3 ELSE 0)
    /\ [][Advance]_vars

\* the pass is over on a graph with an unreachable object, a reachable
\* object with two referrers and a root that another root reaches
C23_Witness ==
    /\ PostOver
    /\ \E x \in Objs : x \notin Reachable
    /\ \E x \in Reachable : ref2[x + 1] # <<>>
    /\ \E x, y \in roots : x # y /\ x \in Succ(y)

(***************************************************************************)
(* Frames and goroutines.                                                  *)
(***************************************************************************)
\* the frames that name frame g as their child: one level further out,
\* with g's stack pointer as their child address
Callers(g) ==
    {k \in 1..Len(d.Frames) :
        /\ d.Frames[k].Depth > 0
        /\ d.Frames[k].Depth - 1 = d.Frames[g].Depth
        /\ d.Frames[k].childaddr = d.Frames[g].Addr}

\* C24 as stated: after linking, the parent of a frame f of depth > 0 is
\* the frame at f's child address, one level further in.
C24_ParentIsChild ==
    Linked =>
        \A f \in 1..Len(d.Frames) :
            d.Frames[f].Depth > 0 =>
                /\ d.Frames[f].Parent # 0
                /\ d.Frames[d.Frames[f].Parent].Addr = d.Frames[f].childaddr
                /\ d.Frames[d.Frames[f].Parent].Depth = d.Frames[f].Depth - 1

\* C24: after linking, a frame f of depth > 0 is the parent of the frame at
\* f's child address, one level further in; a frame that no frame names as
\* its child has no parent.  (The frames of the model differ in stack
\* pointer or depth.)
C24_ChildHasParent ==
    Linked =>
        \A g \in 1..Len(d.Frames) :
            IF Callers(g) = {} THEN d.Frames[g].Parent = 0
            ELSE d.Frames[g].Parent \in Callers(g)

\* a linked dump with a frame of depth > 0 whose child is among the frames
C24_Witness ==
    /\ Linked
    /\ \E g \in 1..Len(d.Frames) : Callers(g) # {} /\ d.Frames[g].Depth = 0
    /\ \E f \in 1..Len(d.Frames) : d.Frames[f].Depth > 0 /\ Callers(f) = {}

(***************************************************************************)
(* Object lookup over the whole heap.                                      *)
(***************************************************************************)
\* the addresses looked up: around the ends of the heap and of every object
ProbeAddrs ==
    {d.HeapStart - 1, d.HeapStart, d.HeapEnd - 1, d.HeapEnd}
      \cup {Addr(d, x) + k : x \in Objs, k \in {-1, 0}}
      \cup {Addr(d, x) + Size(d, x) + k : x \in Objs, k \in {-1, 0}}

\* findObj's answer r for address a is sound
FoundRight(a, r) ==
    /\ r.st = "ok"
    /\ (a < d.HeapStart \/ a >= d.HeapEnd) => r.v = ObjNil
    /\ r.v # ObjNil =>
         /\ r.v \in Objs
         /\ Addr(d, r.v) <= a
         /\ a < Addr(d, r.v) + Size(d, r.v)
    /\ (a = d.HeapStart /\ \E x \in Objs : Addr(d, x) = a /\ Size(d, x) > 0)
         => r.v = 0

\* every object record of the file lies inside the heap that the file's
\* Params record gives
FileInHeap(recs) ==
    \E i \in 1..Len(recs) :
        /\ recs[i][1] = tagParams
        /\ \A j \in 1..Len(recs) :
             recs[j][1] = tagObject =>
                 /\ recs[i][5] <= recs[j][2]
                 /\ recs[j][2] + recs[j][5] <= recs[i][6]

\* C25: after load findObj answers every address without reading the index
\* out of range: Nil below the heap and at or above its end, the first
\* object for the start of the heap if an object starts there, and never an
\* object that does not hold the address; and a load of a file whose
\* objects all lie inside the heap does not stop on an index out of range.
C25_FindObjTotal ==
    /\ Linked => \A a \in ProbeAddrs : FoundRight(a, findObj(d, a))
    /\ pc = "panic" => ~FileInHeap(Records)

(***************************************************************************)
(* The fields of arrays.                                                   *)
(***************************************************************************)
\* the file has an array smaller than one element of its type
ArrayShort(recs) ==
    \E i \in 1..Len(recs) :
        /\ recs[i][1] = tagObject /\ recs[i][4] = TypeKindArray
        /\ \E j \in 1..Len(recs) :
             /\ recs[j][1] = tagType /\ recs[j][2] = recs[i][3]
             /\ recs[j][3] > recs[i][5]

\* the fields fs are n elements of type T laid one after the other
ElementsOf(fs, T, n) ==
    /\ Len(fs) = n * Len(T.Fields)
    /\ \A e \in 0..(n - 1) : \A k \in 1..Len(T.Fields) :
         LET f == fs[e * Len(T.Fields) + k] IN
         /\ f.Kind = T.Fields[k].Kind
         /\ f.Offset = e * T.Size + T.Fields[k].Offset
         /\ f.Name = IF T.Fields[k].Name # ""
                     THEN ToString(e) \o "." \o T.Fields[k].Name
                     ELSE ToString(e)

\* C26: after load the fields of an Array full type of size S over a type
\* of size E > 0 are those of floor(S / E) elements, element i with the
\* type's fields at i * E + the field's offset and named by i; and the load
\* of a file with an array smaller than one element does not abort.
C26_ArrayElements ==
    /\ Linked =>
         \A i \in 1..Len(d.FTList) :
            (/\ d.FTList[i].Kind = TypeKindArray
             /\ d.FTList[i].Typ # 0
             /\ d.Types[d.FTList[i].Typ].Size > 0)
              => ElementsOf(d.FTList[i].Fields, d.Types[d.FTList[i].Typ],
                            d.FTList[i].Size \div d.Types[d.FTList[i].Typ].Size)
    /\ (pc # "start" /\ ArrayShort(Records)) => ~Aborted

(***************************************************************************)
(* The two makers of edges.                                                *)
(***************************************************************************)
\* appendFields' result a and Edges' result e are the same outcome and,
\* without abort, the same edges
SameResult(a, e) ==
    /\ a.st = e.st
    /\ a.st = "ok" => a.v = View(e.mem, e.e)

\* the linker's edges es for fields over data are the outcome of Edges'
\* loop over the same fields and bytes
SameAsLoop(es, e) == e.st = "ok" /\ es = View(e.mem, e.e)

\* C27: after load, for the fields and bytes of every object appendFields
\* gives the edges and the outcome that Edges gives, and the edges that
\* the linker stored on the data segment, the bss segment and the frames
\* are those that the loop of Edges gives for their fields and bytes.
C27_SameEdges ==
    Linked =>
        /\ \A x \in Objs :
             SameResult(appendFields(d, <<>>, ObjBytes(x), Ft(d, x).Fields),
                        Edges(d, mem, file, x))
        /\ \A k \in 1..Len(d.Data) :
             SameAsLoop(d.Data[k].Edges,
                        edgesLoop(d, mem, d.Data[k].Data, d.Data[k].Fields, 1,
                                  NilSlice))
        /\ \A k \in 1..Len(d.Bss) :
             SameAsLoop(d.Bss[k].Edges,
                        edgesLoop(d, mem, d.Bss[k].Data, d.Bss[k].Fields, 1,
                                  NilSlice))
        /\ \A k \in 1..Len(d.Frames) :
             SameAsLoop(d.Frames[k].Edges,
                        edgesLoop(d, mem, d.Frames[k].Data, d.Frames[k].Fields,
                                  1, NilSlice))

\* C28: after linking, the context of a goroutine is what findObj makes of
\* its context address: the object that holds the address, ObjNil if no
\* object holds it.
C28_CtxtResolved ==
    Linked =>
        \A k \in 1..Len(d.Goroutines) :
            d.Goroutines[k].Ctxt = findObj(d, d.Goroutines[k].ctxtaddr).v

(***************************************************************************)
(* The reader's count.                                                     *)
(***************************************************************************)
\* the bodies of the object records of the file: where the body begins in
\* the file (pos), what the reader has counted there (cnt), its size
RECURSIVE bodiesFrom(_, _, _)
bodiesFrom(fl, r, acc) ==
    LET body(kind, x) ==
            IF x.st # "ok" THEN acc
            ELSE IF kind = tagObject
                 THEN bodiesFrom(fl, Skip(fl, x.r, x.v[4]),
                                 Append(acc, [pos |-> x.r.pos, cnt |-> x.r.cnt,
                                              size |-> x.v[4]]))
                 ELSE bodiesFrom(fl, x.r, acc)
        with(kind) ==
            IF kind.st # "ok" \/ kind.v \notin 1..15 THEN acc
            ELSE body(kind.v,
                      readItems(fl, kind.r, RecordFormat(kind.v), <<>>))
    IN with(readUint64(fl, r))

Bodies ==
    LET with(hdr) == IF ~hdr.ok THEN <<>> ELSE bodiesFrom(file, hdr.r, <<>>)
    IN with(ReadLine(file, NewReader))

\* Contents(x) returns the bytes of the file from place on
ContentsFrom(x, place, c) ==
    /\ c.st = "ok"
    /\ View(c.mem, c.b) = SubSeq(file, place + 1, place + Size(d, x))

\* C29: after load the reader's count at the body of every object record
\* is the body's place in the file, every object's offset is the place of
\* the body of its record, and Contents returns the bytes of that body.
C29_CountIsPlace ==
    Linked =>
        LET bs == Bodies IN
        /\ \A k \in 1..Len(bs) : bs[k].cnt = bs[k].pos
        /\ \A x \in Objs :
             \E k \in 1..Len(bs) :
                /\ bs[k].cnt = d.Objects[x + 1].offset
                /\ bs[k].size = Size(d, x)
                /\ ContentsFrom(x, bs[k].pos, Contents(d, mem, file, x))

(***************************************************************************)
(* A dump without roots.                                                   *)
(***************************************************************************)
\* the file holds a Params record, Type records and Object records, and
\* no record of another kind
OnlyHeapRecords(recs) ==
    /\ \E i \in 1..Len(recs) : recs[i][1] = tagParams
    /\ \A i \in 1..Len(recs) : recs[i][1] \in {tagParams, tagType, tagObject}

\* C30: the load of a dump with no Data record, no Bss record, no frame and
\* no goroutine, only Params, Type and Object records, does not abort.
C30_NoRootsLoads ==
    (pc # "start" /\ OnlyHeapRecords(Records)) => ~Aborted

====
